---- MODULE Spec2Model ----
(***************************************************************************)
(* Event-sourced playback subsystem of SortForge: the semantic event       *)
(* model (types/events.ts), the materializing engine (PregenEngine), the   *)
(* streaming engine (LiveEngine) and the AnimationController.              *)
(*                                                                         *)
(* Conventions.  Array indices in events are 0-based as in the source; a   *)
(* TypeScript array is a sequence, so a[i] of the source is a[i + 1] here. *)
(* null is the record Null.  Objects are records whose fields carry the    *)
(* names of the source's fields; a method m of class K is the operator     *)
(* K_m taking the object as first argument and returning the object after  *)
(* the call (and K_m_ret the value it returns, when it returns one).       *)
(***************************************************************************)
EXTENDS Integers, Sequences, FiniteSets, TLC

VARIABLES provider, ctl, twin, eng, ret, lab

vars == <<provider, ctl, twin, eng, ret, lab>>

(***************************************************************************)
(* Program constants (config.ts).  Speeds are fixed-point numbers in       *)
(* tenths: 10 is the source's 1 and 1 is its 0.1.                          *)
(***************************************************************************)
BASE_EVENTS_PER_SECOND == 60

SPEED_DEFAULT == 10

SPEED_MIN == 1

SPEED_MAX == 100

(***************************************************************************)
(* Bounds of the model.                                                    *)
(***************************************************************************)
\* LiveEngine.BATCH_SIZE and LiveEngine.BUFFER_BATCHES.  The source sets
\* them to 200 and 3; the engine is parametric in them and the model runs
\* it with small windows.
BATCH_SIZE == 2

BUFFER_BATCHES == 3

\* Number of events before the terminal Done in an enumerated run.
MaxLen == 2

\* The long run has one retention window of events plus LongExtra.
LongExtra == 2

\* The huge run exceeds twice the retention window by HugeExtra.
HugeExtra == 1

\* A frame tick is taken while less than this much time is accumulated (time
\* accumulates without limit only while no engine is bound).
MaxAccumulated == 100

Null == [type |-> "null"]

\* The value of lab in the specifications that do not use it.
Off == [phase |-> "off"]

Min(a, b) == IF a < b THEN a ELSE b

Max(a, b) == IF a > b THEN a ELSE b

(***************************************************************************)
(* types/events.ts : the event variants.                                   *)
(***************************************************************************)
Swap(i, j) == [type |-> "Swap", i |-> i, j |-> j]

Overwrite(idx, old, new) ==
  [type |-> "Overwrite", idx |-> idx, old_val |-> old, new_val |-> new]

Compare(i, j) == [type |-> "Compare", i |-> i, j |-> j]

EnterRange(lo, hi) == [type |-> "EnterRange", lo |-> lo, hi |-> hi]

ExitRange(lo, hi) == [type |-> "ExitRange", lo |-> lo, hi |-> hi]

Done == [type |-> "Done"]

\* Mutant: Overwrite taken for an event without state, returned as it is.
inverseEvent_overwriteKept(event) ==
  CASE event.type = "EnterRange" ->
         [type |-> "ExitRange", lo |-> event.lo, hi |-> event.hi]
    [] event.type = "ExitRange" ->
         [type |-> "EnterRange", lo |-> event.lo, hi |-> event.hi]
    [] OTHER -> event

\* Mutant: the ExitRange case forgotten, so that it falls to the default.
inverseEvent_exitKept(event) ==
  CASE event.type = "Swap" -> event
    [] event.type = "Overwrite" ->
         [type |-> "Overwrite", idx |-> event.idx,
          old_val |-> event.new_val, new_val |-> event.old_val]
    [] event.type = "EnterRange" ->
         [type |-> "ExitRange", lo |-> event.lo, hi |-> event.hi]
    [] OTHER -> event

inverseEvent(event) ==
  CASE event.type = "Swap" -> event
    [] event.type = "Overwrite" ->
         [type |-> "Overwrite", idx |-> event.idx,
          old_val |-> event.new_val, new_val |-> event.old_val]
    [] event.type = "EnterRange" ->
         [type |-> "ExitRange", lo |-> event.lo, hi |-> event.hi]
    [] event.type = "ExitRange" ->
         [type |-> "EnterRange", lo |-> event.lo, hi |-> event.hi]
    [] OTHER -> event

\* Sequencing of statements: x is evaluated first and F applied to its
\* value, as "const v = x; F(v)".
Then(x, F(_)) == CHOOSE r \in {F(v) : v \in {x}} : TRUE

\* Array.prototype.slice(from, to): a negative index counts from the end,
\* an index past the end is the end; the elements of 0-based index
\* from .. to-1.
SliceIndex(s, k) == IF k < 0 THEN Max(Len(s) + k, 0) ELSE Min(k, Len(s))

Slice(s, from, to) == SubSeq(s, SliceIndex(s, from) + 1, SliceIndex(s, to))

\* The value of reading an array element that does not exist.
Undefined == [type |-> "undefined"]

\* s[k] of a JavaScript array, k a 0-based index.
At(s, k) == IF k >= 0 /\ k < Len(s) THEN s[k + 1] ELSE Undefined

(***************************************************************************)
(* The wasm LiveStepper (rust-core, not among the sources): a resumable    *)
(* computation that emits the events of the run in order, at most limit    *)
(* per step call, and reports is_done once the last one has been emitted.  *)
(* provider.events is the event sequence the algorithm produces for the    *)
(* input array provider.input.                                             *)
(***************************************************************************)
LiveStepper_new == [emitted |-> 0, freed |-> FALSE]

LiveStepper_is_done(s) == s.emitted >= Len(provider.events)

LiveStepper_step_ret(s, limit) ==
  Slice(provider.events, s.emitted, s.emitted + limit)

LiveStepper_step(s, limit) ==
  [s EXCEPT !.emitted = Min(s.emitted + limit, Len(provider.events))]

LiveStepper_free(s) == [s EXCEPT !.freed = TRUE]

(***************************************************************************)
(* engines/LiveEngine.ts : the streaming engine.                           *)
(***************************************************************************)
LiveEngine_new ==
  [name |-> "Live (V2)", canSeek |-> FALSE, stepper |-> Null,
   originalArray |-> <<>>, algorithm |-> "", position |-> 0,
   eventBuffer |-> <<>>, bufferStart |-> 0, totalEventsGenerated |-> 0,
   done |-> FALSE]

\* Mutant: the fill loop appends the batch without counting it.
RECURSIVE LiveEngine_fillLoop_uncounted(_, _)
LiveEngine_fillLoop_uncounted(e, eventsAhead) ==
  IF eventsAhead < BATCH_SIZE * BUFFER_BATCHES /\ ~LiveStepper_is_done(e.stepper)
  THEN Then(LiveStepper_step_ret(e.stepper, BATCH_SIZE),
       LAMBDA events :
       Then([e EXCEPT !.stepper = LiveStepper_step(e.stepper, BATCH_SIZE),
                      !.eventBuffer = e.eventBuffer \o events],
       LAMBDA e1 :
       IF LiveStepper_is_done(e1.stepper)
       THEN [e1 EXCEPT !.done = TRUE]
       ELSE LiveEngine_fillLoop_uncounted(e1, eventsAhead)))
  ELSE e

\* The while loop of fillBufferAhead.  eventsAhead is the const computed
\* before the loop: the loop condition reads it and nothing updates it.
RECURSIVE LiveEngine_fillLoop(_, _)
LiveEngine_fillLoop(e, eventsAhead) ==
  IF eventsAhead < BATCH_SIZE * BUFFER_BATCHES /\ ~LiveStepper_is_done(e.stepper)
  THEN Then(LiveStepper_step_ret(e.stepper, BATCH_SIZE),
       LAMBDA events :
       Then([e EXCEPT !.stepper = LiveStepper_step(e.stepper, BATCH_SIZE),
                      !.eventBuffer = e.eventBuffer \o events,
                      !.totalEventsGenerated = e.totalEventsGenerated + Len(events)],
       LAMBDA e1 :
       IF LiveStepper_is_done(e1.stepper)
       THEN [e1 EXCEPT !.done = TRUE]
       ELSE LiveEngine_fillLoop(e1, eventsAhead)))
  ELSE e

LiveEngine_fillBufferAhead(e) ==
  IF e.stepper = Null \/ e.done THEN e
  ELSE LET bufferOffset == e.position - e.bufferStart
           eventsAhead == Len(e.eventBuffer) - bufferOffset
       IN  LiveEngine_fillLoop(e, eventsAhead)

LiveEngine_ensureBufferAhead(e) ==
  LET bufferOffset == e.position - e.bufferStart
      eventsAhead == Len(e.eventBuffer) - bufferOffset
      threshold == BATCH_SIZE * 2
  IN  IF eventsAhead < threshold THEN LiveEngine_fillBufferAhead(e) ELSE e

\* Mutant: the trim drops the oldest events and leaves bufferStart alone.
LiveEngine_trimBufferBehind_keepStart(e) ==
  LET maxBehind == BATCH_SIZE * BUFFER_BATCHES
      eventsBehind == e.position - e.bufferStart
  IN  IF eventsBehind > maxBehind
      THEN LET trimCount == eventsBehind - maxBehind
           IN  [e EXCEPT !.eventBuffer =
                             Slice(e.eventBuffer, trimCount, Len(e.eventBuffer))]
      ELSE e

LiveEngine_trimBufferBehind(e) ==
  LET maxBehind == BATCH_SIZE * BUFFER_BATCHES
      eventsBehind == e.position - e.bufferStart
  IN  IF eventsBehind > maxBehind
      THEN LET trimCount == eventsBehind - maxBehind
           IN  [e EXCEPT !.eventBuffer =
                             Slice(e.eventBuffer, trimCount, Len(e.eventBuffer)),
                         !.bufferStart = e.bufferStart + trimCount]
      ELSE e

\* initialize(algorithm, array) once initLiveWasm has resolved and the
\* stepper class is available.
LiveEngine_initialize(e, algorithm, array) ==
  LiveEngine_fillBufferAhead(
    [e EXCEPT !.originalArray = array,
              !.algorithm = algorithm,
              !.stepper = LiveStepper_new,
              !.position = 0,
              !.eventBuffer = <<>>,
              !.bufferStart = 0,
              !.totalEventsGenerated = 0,
              !.done = FALSE])

\* initialize(algorithm, array) when initLiveWasm rejects or the stepper
\* class is missing: the error leaves before any field is assigned.
LiveEngine_initializeFails(e, algorithm, array) == e

\* initialize(algorithm, array) when the LiveStepper constructor throws:
\* the previous stepper has been freed and the array and the algorithm
\* assigned; the stepper field still refers to the freed stepper.
LiveEngine_initializeThrows(e, algorithm, array) ==
  [e EXCEPT !.stepper = IF e.stepper = Null THEN Null
                        ELSE LiveStepper_free(e.stepper),
            !.originalArray = array,
            !.algorithm = algorithm]

\* reset() when the LiveStepper constructor throws: the stepper has been
\* freed and nothing else assigned.
LiveEngine_resetThrows(e) ==
  [e EXCEPT !.stepper = IF e.stepper = Null THEN Null
                        ELSE LiveStepper_free(e.stepper)]

\* getNextEvents reaches stepper.is_done(): ensureBufferAhead is below its
\* threshold and fillBufferAhead does not return at its first line.
LiveEngine_fillReadsStepper(e) ==
  /\ e.stepper # Null
  /\ ~e.done
  /\ Len(e.eventBuffer) - (e.position - e.bufferStart) < BATCH_SIZE * 2

\* Mutant: getNextEvents hands out one batch at most.
LiveEngine_getNextEvents_ret_oneBatch(e, count) ==
  IF e.stepper = Null THEN <<>>
  ELSE Then(LiveEngine_ensureBufferAhead(e),
       LAMBDA e1 :
       Slice(e1.eventBuffer, e1.position - e1.bufferStart,
             e1.position - e1.bufferStart + Min(count, BATCH_SIZE)))

LiveEngine_getNextEvents_ret(e, count) ==
  IF e.stepper = Null THEN <<>>
  ELSE Then(LiveEngine_ensureBufferAhead(e),
       LAMBDA e1 :
       Slice(e1.eventBuffer, e1.position - e1.bufferStart,
             e1.position - e1.bufferStart + count))

LiveEngine_getNextEvents(e, count) ==
  IF e.stepper = Null THEN e
  ELSE Then(LiveEngine_ensureBufferAhead(e),
       LAMBDA e1 :
       Then(Slice(e1.eventBuffer, e1.position - e1.bufferStart,
                  e1.position - e1.bufferStart + count),
       LAMBDA available :
       LiveEngine_trimBufferBehind(
         [e1 EXCEPT !.position = e1.position + Len(available)])))

\* Mutant: the upper bound of the window compared with > instead of >=.
LiveEngine_getEventAt_pastEnd(e, index) ==
  IF index < e.bufferStart THEN Null
  ELSE LET bufferOffset == index - e.bufferStart
       IN  IF bufferOffset > Len(e.eventBuffer) THEN Null
           ELSE At(e.eventBuffer, bufferOffset)

LiveEngine_getEventAt(e, index) ==
  IF index < e.bufferStart THEN Null
  ELSE LET bufferOffset == index - e.bufferStart
       IN  IF bufferOffset >= Len(e.eventBuffer) THEN Null
           ELSE At(e.eventBuffer, bufferOffset)

LiveEngine_getTotalEvents(e) == e.totalEventsGenerated

LiveEngine_getCurrentPosition(e) == e.position

\* Mutant: seek takes any position.
LiveEngine_seek_anywhere(e, position) == [e EXCEPT !.position = position]

\* Mutant: a target before the buffer is clamped to the start of the buffer.
LiveEngine_seek_clamped(e, position) ==
  IF position <= e.bufferStart + Len(e.eventBuffer)
  THEN [e EXCEPT !.position = Max(position, e.bufferStart)]
  ELSE e

LiveEngine_seek(e, position) ==
  IF position >= e.bufferStart /\ position <= e.bufferStart + Len(e.eventBuffer)
  THEN [e EXCEPT !.position = position]
  ELSE e

\* Mutant: reset keeps the start of the buffer where trimming has left it.
LiveEngine_reset_keepStart(e) ==
  LiveEngine_fillBufferAhead(
    [e EXCEPT !.stepper = IF e.algorithm # "" THEN LiveStepper_new ELSE Null,
              !.position = 0,
              !.eventBuffer = <<>>,
              !.totalEventsGenerated = 0,
              !.done = FALSE])

\* reset(): the stepper class is loaded, the algorithm name decides whether
\* a stepper is recreated.
LiveEngine_reset(e) ==
  LiveEngine_fillBufferAhead(
    [e EXCEPT !.stepper = IF e.algorithm # "" THEN LiveStepper_new ELSE Null,
              !.position = 0,
              !.eventBuffer = <<>>,
              !.bufferStart = 0,
              !.totalEventsGenerated = 0,
              !.done = FALSE])

\* Mutant: isDone is the done flag alone, wherever the cursor stands.
LiveEngine_isDone_flagOnly(e) == e.done

LiveEngine_isDone(e) == e.done /\ e.position >= e.totalEventsGenerated

(***************************************************************************)
(* engines/PregenEngine.ts : the materializing engine.                     *)
(***************************************************************************)
PregenEngine_new ==
  [name |-> "Pregeneration (V1)", canSeek |-> TRUE, events |-> <<>>,
   position |-> 0, initialized |-> FALSE]

\* initialize(algorithm, array) once initWasm has resolved: pregen_sort
\* returns the whole run.
PregenEngine_initialize(e, algorithm, array) ==
  [e EXCEPT !.events = provider.events, !.position = 0, !.initialized = TRUE]

\* initialize(algorithm, array) when initWasm rejects, the module is missing
\* or pregen_sort throws: the error leaves before any field is assigned.
PregenEngine_initializeFails(e, algorithm, array) == e

\* Mutant: the batch holds one event more than was asked for.
PregenEngine_getNextEvents_ret_oneMore(e, count) ==
  IF ~e.initialized THEN <<>>
  ELSE Slice(e.events, e.position, Min(e.position + count + 1, Len(e.events)))

PregenEngine_getNextEvents_ret(e, count) ==
  IF ~e.initialized THEN <<>>
  ELSE Slice(e.events, e.position, Min(e.position + count, Len(e.events)))

\* Mutant: the cursor moves on by one event whatever the size of the batch.
PregenEngine_getNextEvents_byOne(e, count) ==
  IF ~e.initialized THEN e
  ELSE [e EXCEPT !.position = Min(e.position + 1, Len(e.events))]

PregenEngine_getNextEvents(e, count) ==
  IF ~e.initialized THEN e
  ELSE [e EXCEPT !.position = Min(e.position + count, Len(e.events))]

PregenEngine_getEventAt(e, index) ==
  IF index < 0 \/ index >= Len(e.events) THEN Null ELSE e.events[index + 1]

PregenEngine_getTotalEvents(e) == Len(e.events)

PregenEngine_getCurrentPosition(e) == e.position

PregenEngine_seek(e, position) ==
  IF ~e.canSeek THEN e
  ELSE [e EXCEPT !.position = Max(0, Min(position, Len(e.events)))]

PregenEngine_reset(e) == [e EXCEPT !.position = 0]

PregenEngine_isDone(e) == e.position >= Len(e.events)

(***************************************************************************)
(* engines/types.ts : ISortEngine, dispatched on the implementing class.   *)
(***************************************************************************)
IsLive(e) == e.name = "Live (V2)"

Engine_initialize(e, algorithm, array) ==
  IF IsLive(e) THEN LiveEngine_initialize(e, algorithm, array)
  ELSE PregenEngine_initialize(e, algorithm, array)

Engine_initializeFails(e, algorithm, array) ==
  IF IsLive(e) THEN LiveEngine_initializeFails(e, algorithm, array)
  ELSE PregenEngine_initializeFails(e, algorithm, array)

Engine_getNextEvents_ret(e, count) ==
  IF IsLive(e) THEN LiveEngine_getNextEvents_ret(e, count)
  ELSE PregenEngine_getNextEvents_ret(e, count)

Engine_getNextEvents(e, count) ==
  IF IsLive(e) THEN LiveEngine_getNextEvents(e, count)
  ELSE PregenEngine_getNextEvents(e, count)

Engine_getEventAt(e, index) ==
  IF IsLive(e) THEN LiveEngine_getEventAt(e, index)
  ELSE PregenEngine_getEventAt(e, index)

Engine_getTotalEvents(e) ==
  IF IsLive(e) THEN LiveEngine_getTotalEvents(e)
  ELSE PregenEngine_getTotalEvents(e)

Engine_getCurrentPosition(e) ==
  IF IsLive(e) THEN LiveEngine_getCurrentPosition(e)
  ELSE PregenEngine_getCurrentPosition(e)

Engine_seek(e, position) ==
  IF IsLive(e) THEN LiveEngine_seek(e, position)
  ELSE PregenEngine_seek(e, position)

Engine_reset(e) ==
  IF IsLive(e) THEN LiveEngine_reset(e) ELSE PregenEngine_reset(e)

Engine_isDone(e) ==
  IF IsLive(e) THEN LiveEngine_isDone(e) ELSE PregenEngine_isDone(e)

(***************************************************************************)
(* controller/AnimationController.ts.                                      *)
(*                                                                         *)
(* animationId is 0 for null and 1 for the id of the requested frame;      *)
(* pendingFrame is the host's side of requestAnimationFrame: a callback is *)
(* queued.  notified is the snapshot last handed to the listeners and      *)
(* rendered the RenderState last handed to the renderer; listeners is the  *)
(* Set of subscribed listeners and called the listeners that the last      *)
(* notification called, all with the one snapshot.  Time is counted        *)
(* in units of 1/6 ms; a frame tick takes the time since the last frame    *)
(* (time - lastFrameTime) as its input.                                    *)
(***************************************************************************)
AnimationController_new ==
  [engine |-> Null, initialArray |-> <<>>, array |-> <<>>,
   minValue |-> 0, maxValue |-> 1,
   playbackState |-> "idle", direction |-> "forward",
   currentStep |-> 0, totalSteps |-> 0, speed |-> SPEED_DEFAULT,
   animationId |-> 0, pendingFrame |-> FALSE, accumulatedTime |-> 0,
   highlights |-> <<>>, activeRange |-> Null, rangeStack |-> <<>>,
   isSorted |-> FALSE, notified |-> Null, rendered |-> Null,
   listeners |-> {}, called |-> {}]

AnimationController_getState(c) ==
  [playbackState |-> c.playbackState, direction |-> c.direction,
   currentStep |-> c.currentStep, totalSteps |-> c.totalSteps,
   speed |-> c.speed, array |-> c.array]

AnimationController_notifyListeners(c) ==
  [c EXCEPT !.notified = AnimationController_getState(c),
            !.called = c.listeners]

AnimationController_subscribe(c, listener) ==
  [c EXCEPT !.listeners = @ \cup {listener}]

\* The function subscribe(listener) returned, called.
AnimationController_unsubscribe(c, listener) ==
  [c EXCEPT !.listeners = @ \ {listener}]

AnimationController_render(c) ==
  [c EXCEPT !.rendered =
     [array |-> c.array, minValue |-> c.minValue, maxValue |-> c.maxValue,
      highlights |-> c.highlights, isSorted |-> c.isSorted,
      activeRange |-> c.activeRange]]

AnimationController_resetArrayState_keepSorted(c, array) ==
  [c EXCEPT !.array = array, !.activeRange = Null, !.rangeStack = <<>>,
            !.highlights = <<>>]

\* Mutant: the open ranges survive the reset of the array.
AnimationController_resetArrayState_keepRanges(c, array) ==
  [c EXCEPT !.array = array, !.isSorted = FALSE, !.highlights = <<>>]

AnimationController_resetArrayState(c, array) ==
  [c EXCEPT !.array = array, !.activeRange = Null, !.rangeStack = <<>>,
            !.isSorted = FALSE, !.highlights = <<>>]

RECURSIVE SeqMin(_)
SeqMin(a) == IF Len(a) = 1 THEN a[1] ELSE Min(a[1], SeqMin(Tail(a)))

RECURSIVE SeqMax(_)
SeqMax(a) == IF Len(a) = 1 THEN a[1] ELSE Max(a[1], SeqMax(Tail(a)))

AnimationController_updateMinMax(c, array) ==
  IF Len(array) = 0 THEN [c EXCEPT !.minValue = 0, !.maxValue = 1]
  ELSE [c EXCEPT !.minValue = SeqMin(array), !.maxValue = SeqMax(array)]

AnimationController_startAnimationLoop(c) ==
  IF c.animationId # 0 THEN c
  ELSE [c EXCEPT !.animationId = 1, !.pendingFrame = TRUE]

AnimationController_stopAnimationLoop(c) ==
  IF c.animationId # 0
  THEN [c EXCEPT !.animationId = 0, !.pendingFrame = FALSE]
  ELSE c

\* Mutant: the swap without the temporary.
AnimationController_applyEventToArray_noTemp(c, event) ==
  CASE event.type = "Swap" ->
         [c EXCEPT !.array = [c.array EXCEPT ![event.i + 1] = c.array[event.j + 1],
                                             ![event.j + 1] = c.array[event.j + 1]]]
    [] event.type = "Overwrite" ->
         [c EXCEPT !.array = [c.array EXCEPT ![event.idx + 1] = event.new_val]]
    [] event.type = "EnterRange" ->
         [c EXCEPT !.rangeStack = Append(c.rangeStack, [lo |-> event.lo, hi |-> event.hi]),
                   !.activeRange = [lo |-> event.lo, hi |-> event.hi]]
    [] event.type = "ExitRange" ->
         LET popped == IF Len(c.rangeStack) > 0
                       THEN SubSeq(c.rangeStack, 1, Len(c.rangeStack) - 1)
                       ELSE <<>>
         IN  [c EXCEPT !.rangeStack = popped,
                       !.activeRange = IF Len(popped) > 0 THEN popped[Len(popped)]
                                       ELSE Null]
    [] OTHER -> c

AnimationController_applyEventToArray(c, event) ==
  CASE event.type = "Swap" ->
         [c EXCEPT !.array = [c.array EXCEPT ![event.i + 1] = c.array[event.j + 1],
                                             ![event.j + 1] = c.array[event.i + 1]]]
    [] event.type = "Overwrite" ->
         [c EXCEPT !.array = [c.array EXCEPT ![event.idx + 1] = event.new_val]]
    [] event.type = "EnterRange" ->
         [c EXCEPT !.rangeStack = Append(c.rangeStack, [lo |-> event.lo, hi |-> event.hi]),
                   !.activeRange = [lo |-> event.lo, hi |-> event.hi]]
    [] event.type = "ExitRange" ->
         LET popped == IF Len(c.rangeStack) > 0
                       THEN SubSeq(c.rangeStack, 1, Len(c.rangeStack) - 1)
                       ELSE <<>>
         IN  [c EXCEPT !.rangeStack = popped,
                       !.activeRange = IF Len(popped) > 0 THEN popped[Len(popped)]
                                       ELSE Null]
    [] OTHER -> c

\* Mutant: an event that shows nothing leaves the visual state as it was.
AnimationController_applyVisualState_keep(c, event) ==
  CASE event.type = "Compare" ->
         [c EXCEPT !.isSorted = FALSE,
                   !.highlights = <<[kind |-> "comparing", indices |-> <<event.i, event.j>>]>>]
    [] event.type = "Swap" ->
         [c EXCEPT !.isSorted = FALSE,
                   !.highlights = <<[kind |-> "swapping", indices |-> <<event.i, event.j>>]>>]
    [] event.type = "Overwrite" ->
         [c EXCEPT !.isSorted = FALSE,
                   !.highlights = <<[kind |-> "writing", indices |-> <<event.idx>>]>>]
    [] event.type = "Done" ->
         [c EXCEPT !.isSorted = TRUE, !.highlights = <<>>]
    [] OTHER -> c

AnimationController_applyVisualState(c, event) ==
  CASE event.type = "Compare" ->
         [c EXCEPT !.isSorted = FALSE,
                   !.highlights = <<[kind |-> "comparing", indices |-> <<event.i, event.j>>]>>]
    [] event.type = "Swap" ->
         [c EXCEPT !.isSorted = FALSE,
                   !.highlights = <<[kind |-> "swapping", indices |-> <<event.i, event.j>>]>>]
    [] event.type = "Overwrite" ->
         [c EXCEPT !.isSorted = FALSE,
                   !.highlights = <<[kind |-> "writing", indices |-> <<event.idx>>]>>]
    [] event.type = "Done" ->
         [c EXCEPT !.isSorted = TRUE, !.highlights = <<>>]
    [] OTHER -> [c EXCEPT !.isSorted = FALSE, !.highlights = <<>>]

AnimationController_applyEvent(c, event) ==
  AnimationController_applyVisualState(
    AnimationController_applyEventToArray(c, event), event)

\* Mutant: the visual state of the event at the position, not before it.
AnimationController_applyVisualStateForStep_atStep(c, step) ==
  IF c.engine = Null THEN c
  ELSE IF step <= 0 THEN [c EXCEPT !.isSorted = FALSE, !.highlights = <<>>]
  ELSE Then(Engine_getEventAt(c.engine, step),
       LAMBDA event :
       IF event # Null THEN AnimationController_applyVisualState(c, event)
       ELSE [c EXCEPT !.isSorted = FALSE, !.highlights = <<>>])

AnimationController_applyVisualStateForStep(c, step) ==
  IF c.engine = Null THEN c
  ELSE IF step <= 0 THEN [c EXCEPT !.isSorted = FALSE, !.highlights = <<>>]
  ELSE Then(Engine_getEventAt(c.engine, step - 1),
       LAMBDA event :
       IF event # Null THEN AnimationController_applyVisualState(c, event)
       ELSE [c EXCEPT !.isSorted = FALSE, !.highlights = <<>>])

\* Mutant: reset rewinds the controller and leaves the engine where it is.
AnimationController_reset_controllerOnly(c) ==
  Then([AnimationController_resetArrayState(c, c.initialArray)
          EXCEPT !.currentStep = 0],
  LAMBDA c1 :
  Then(IF c1.engine # Null
       THEN [c1 EXCEPT !.totalSteps = Engine_getTotalEvents(c1.engine)]
       ELSE c1,
  LAMBDA c2 :
  AnimationController_render(AnimationController_notifyListeners(
    IF c2.playbackState = "done" THEN [c2 EXCEPT !.playbackState = "idle"]
    ELSE c2))))

\* Mutant: reset leaves the controller idle whatever it was doing.
AnimationController_reset_toIdle(c) ==
  Then([AnimationController_resetArrayState(c, c.initialArray)
          EXCEPT !.currentStep = 0],
  LAMBDA c1 :
  Then(IF c1.engine # Null
       THEN Then(Engine_reset(c1.engine),
            LAMBDA e : [c1 EXCEPT !.engine = e,
                                  !.totalSteps = Engine_getTotalEvents(e)])
       ELSE c1,
  LAMBDA c2 :
  AnimationController_render(AnimationController_notifyListeners(
    [c2 EXCEPT !.playbackState = "idle"]))))

AnimationController_reset(c) ==
  Then([AnimationController_resetArrayState(c, c.initialArray)
          EXCEPT !.currentStep = 0],
  LAMBDA c1 :
  Then(IF c1.engine # Null
       THEN Then(Engine_reset(c1.engine),
            LAMBDA e : [c1 EXCEPT !.engine = e,
                                  !.totalSteps = Engine_getTotalEvents(e)])
       ELSE c1,
  LAMBDA c2 :
  AnimationController_render(AnimationController_notifyListeners(
    IF c2.playbackState = "done" THEN [c2 EXCEPT !.playbackState = "idle"]
    ELSE c2))))

AnimationController_stop(c) ==
  AnimationController_reset(
    AnimationController_stopAnimationLoop([c EXCEPT !.playbackState = "idle"]))

\* initialize(engine, algorithm, array) up to its await: the controller is
\* stopped and bound to the engine, which is not initialized yet.
AnimationController_initializeBegin(c, engine, array) ==
  Then(AnimationController_stop(c),
  LAMBDA c0 :
  AnimationController_updateMinMax(
    AnimationController_resetArrayState(
      [c0 EXCEPT !.engine = engine, !.initialArray = array], array), array))

\* initialize(engine, algorithm, array) after its await: e is the engine
\* of the call, now initialized, the object this.engine refers to.
AnimationController_initializeEnd(c, e) ==
  AnimationController_render(AnimationController_notifyListeners(
    [c EXCEPT !.engine = e, !.totalSteps = Engine_getTotalEvents(e),
              !.currentStep = 0, !.playbackState = "idle"]))

\* initialize(engine, algorithm, array) with an engine whose initialize
\* resolves at once, no other operation coming in between.
AnimationController_initialize(c, engine, algorithm, array) ==
  Then(AnimationController_initializeBegin(c, engine, array),
  LAMBDA c2 :
  Then(Engine_initialize(c2.engine, algorithm, array),
  LAMBDA e : AnimationController_initializeEnd(c2, e)))

\* Mutant: play() resumes from wherever the controller stands, also when
\* the playback is done.
AnimationController_play_noReset(c) ==
  Then(c,
  LAMBDA c1 :
  AnimationController_notifyListeners(AnimationController_startAnimationLoop(
    [c1 EXCEPT !.engine = IF c1.engine # Null
                          THEN Engine_seek(c1.engine, c1.currentStep)
                          ELSE c1.engine,
               !.direction = "forward", !.playbackState = "playing",
               !.accumulatedTime = 0])))

AnimationController_play(c) ==
  Then(IF c.playbackState = "done" THEN AnimationController_reset(c) ELSE c,
  LAMBDA c1 :
  AnimationController_notifyListeners(AnimationController_startAnimationLoop(
    [c1 EXCEPT !.engine = IF c1.engine # Null
                          THEN Engine_seek(c1.engine, c1.currentStep)
                          ELSE c1.engine,
               !.direction = "forward", !.playbackState = "playing",
               !.accumulatedTime = 0])))

AnimationController_playBackward(c) ==
  IF c.currentStep <= 0 THEN c
  ELSE AnimationController_notifyListeners(
         AnimationController_startAnimationLoop(
           [c EXCEPT !.direction = "backward", !.playbackState = "playing",
                     !.accumulatedTime = 0]))

AnimationController_pause(c) ==
  AnimationController_notifyListeners(
    AnimationController_stopAnimationLoop([c EXCEPT !.playbackState = "paused"]))

AnimationController_stepForward(c) ==
  IF c.engine = Null THEN c
  ELSE IF c.engine.canSeek
  THEN IF c.currentStep >= c.totalSteps THEN c
       ELSE Then(Engine_getEventAt(c.engine, c.currentStep),
            LAMBDA event :
            IF event = Null THEN c
            ELSE Then(AnimationController_applyEvent(c, event),
                 LAMBDA c1 :
                 Then([c1 EXCEPT !.currentStep = c1.currentStep + 1,
                                 !.engine = Engine_seek(c1.engine, c1.currentStep + 1)],
                 LAMBDA c2 :
                 AnimationController_render(AnimationController_notifyListeners(
                   IF c2.currentStep >= c2.totalSteps
                   THEN AnimationController_stopAnimationLoop(
                          [c2 EXCEPT !.playbackState = "done"])
                   ELSE c2)))))
  ELSE Then(Engine_getNextEvents_ret(c.engine, 1),
       LAMBDA batch :
       Then([c EXCEPT !.engine = Engine_getNextEvents(c.engine, 1)],
       LAMBDA c0 :
       IF Len(batch) = 0
       THEN AnimationController_render(AnimationController_notifyListeners(
              IF Engine_isDone(c0.engine)
              THEN [AnimationController_stopAnimationLoop(
                      [c0 EXCEPT !.playbackState = "done"])
                      EXCEPT !.totalSteps = c0.currentStep]
              ELSE c0))
       ELSE Then(AnimationController_applyEvent(c0, batch[1]),
            LAMBDA c1 :
            AnimationController_render(AnimationController_notifyListeners(
              [c1 EXCEPT !.currentStep = c1.currentStep + 1,
                         !.totalSteps = Engine_getTotalEvents(c1.engine)])))))

\* Mutant: stepBackward moves the position back also when the engine cannot
\* supply the event to undo.
AnimationController_stepBackward_blind(c) ==
  IF c.engine = Null \/ c.currentStep <= 0 THEN c
  ELSE Then(Engine_getEventAt(c.engine, c.currentStep - 1),
       LAMBDA event :
       IF event = Null
       THEN AnimationController_render(AnimationController_notifyListeners(
              [c EXCEPT !.currentStep = c.currentStep - 1]))
       ELSE Then(AnimationController_applyEventToArray(
                   [c EXCEPT !.currentStep = c.currentStep - 1], inverseEvent(event)),
            LAMBDA c1 :
            Then(AnimationController_applyVisualStateForStep(c1, c1.currentStep),
            LAMBDA c2 :
            AnimationController_render(AnimationController_notifyListeners(
              [c2 EXCEPT !.engine = Engine_seek(c2.engine, c2.currentStep),
                         !.playbackState = IF c2.playbackState = "done"
                                           THEN "paused"
                                           ELSE c2.playbackState])))))

\* Mutant: stepBackward moves the controller and leaves the engine's cursor
\* where it was.
AnimationController_stepBackward_noSeek(c) ==
  IF c.engine = Null \/ c.currentStep <= 0 THEN c
  ELSE Then(Engine_getEventAt(c.engine, c.currentStep - 1),
       LAMBDA event :
       IF event = Null THEN c
       ELSE Then(AnimationController_applyEventToArray(
                   [c EXCEPT !.currentStep = c.currentStep - 1], inverseEvent(event)),
            LAMBDA c1 :
            Then(AnimationController_applyVisualStateForStep(c1, c1.currentStep),
            LAMBDA c2 :
            AnimationController_render(AnimationController_notifyListeners(
              [c2 EXCEPT !.playbackState = IF c2.playbackState = "done"
                                           THEN "paused"
                                           ELSE c2.playbackState])))))

AnimationController_stepBackward(c) ==
  IF c.engine = Null \/ c.currentStep <= 0 THEN c
  ELSE Then(Engine_getEventAt(c.engine, c.currentStep - 1),
       LAMBDA event :
       IF event = Null THEN c
       ELSE Then(AnimationController_applyEventToArray(
                   [c EXCEPT !.currentStep = c.currentStep - 1], inverseEvent(event)),
            LAMBDA c1 :
            Then(AnimationController_applyVisualStateForStep(c1, c1.currentStep),
            LAMBDA c2 :
            AnimationController_render(AnimationController_notifyListeners(
              [c2 EXCEPT !.engine = Engine_seek(c2.engine, c2.currentStep),
                         !.playbackState = IF c2.playbackState = "done"
                                           THEN "paused"
                                           ELSE c2.playbackState])))))

\* The replay loop of seekTo: its iterations i = lo .. hi in order.
RECURSIVE AnimationController_replay(_, _, _)
AnimationController_replay(c, lo, hi) ==
  IF lo > hi THEN c
  ELSE IF lo = hi
  THEN Then(Engine_getEventAt(c.engine, lo),
       LAMBDA event :
       IF event # Null THEN AnimationController_applyEventToArray(c, event)
       ELSE c)
  ELSE Then(AnimationController_replay(c, lo, (lo + hi) \div 2),
       LAMBDA v : AnimationController_replay(v, (lo + hi) \div 2 + 1, hi))

\* Mutant: the replay loop of seekTo runs one iteration too many.
AnimationController_seekTo_oneMore(c, step) ==
  IF c.engine = Null THEN c
  ELSE IF ~c.engine.canSeek THEN c
  ELSE Then(Max(0, Min(step, c.totalSteps)),
       LAMBDA targetStep :
       Then(AnimationController_replay(
              AnimationController_resetArrayState(c, c.initialArray),
              0, targetStep),
       LAMBDA c1 :
       Then(IF targetStep > 0 /\ targetStep <= c1.totalSteps
            THEN Engine_getEventAt(c1.engine, targetStep - 1)
            ELSE Null,
       LAMBDA last :
       Then(IF last # Null THEN AnimationController_applyVisualState(c1, last)
            ELSE c1,
       LAMBDA c2 :
       Then([c2 EXCEPT !.currentStep = targetStep,
                       !.engine = IF c2.engine.canSeek
                                  THEN Engine_seek(c2.engine, targetStep)
                                  ELSE c2.engine],
       LAMBDA c3 :
       AnimationController_render(AnimationController_notifyListeners(
         IF c3.currentStep >= c3.totalSteps
         THEN AnimationController_stopAnimationLoop(
                [c3 EXCEPT !.playbackState = "done"])
         ELSE IF c3.playbackState = "done"
         THEN [c3 EXCEPT !.playbackState = "paused"]
         ELSE c3)))))))

\* Mutant: seekTo takes the requested step as it is, without clamping it.
AnimationController_seekTo_unclamped(c, step) ==
  IF c.engine = Null THEN c
  ELSE IF ~c.engine.canSeek THEN c
  ELSE Then(step,
       LAMBDA targetStep :
       Then(AnimationController_replay(
              AnimationController_resetArrayState(c, c.initialArray),
              0, targetStep - 1),
       LAMBDA c1 :
       Then(IF targetStep > 0 /\ targetStep <= c1.totalSteps
            THEN Engine_getEventAt(c1.engine, targetStep - 1)
            ELSE Null,
       LAMBDA last :
       Then(IF last # Null THEN AnimationController_applyVisualState(c1, last)
            ELSE c1,
       LAMBDA c2 :
       Then([c2 EXCEPT !.currentStep = targetStep,
                       !.engine = IF c2.engine.canSeek
                                  THEN Engine_seek(c2.engine, targetStep)
                                  ELSE c2.engine],
       LAMBDA c3 :
       AnimationController_render(AnimationController_notifyListeners(
         IF c3.currentStep >= c3.totalSteps
         THEN AnimationController_stopAnimationLoop(
                [c3 EXCEPT !.playbackState = "done"])
         ELSE IF c3.playbackState = "done"
         THEN [c3 EXCEPT !.playbackState = "paused"]
         ELSE c3)))))))

\* Mutant: seekTo replays onto the working array as it stands, without
\* going back to the original input first.
AnimationController_seekTo_noReset(c, step) ==
  IF c.engine = Null THEN c
  ELSE IF ~c.engine.canSeek THEN c
  ELSE Then(Max(0, Min(step, c.totalSteps)),
       LAMBDA targetStep :
       Then(AnimationController_replay(c, 0, targetStep - 1),
       LAMBDA c1 :
       Then(IF targetStep > 0 /\ targetStep <= c1.totalSteps
            THEN Engine_getEventAt(c1.engine, targetStep - 1)
            ELSE Null,
       LAMBDA last :
       Then(IF last # Null THEN AnimationController_applyVisualState(c1, last)
            ELSE c1,
       LAMBDA c2 :
       Then([c2 EXCEPT !.currentStep = targetStep,
                       !.engine = IF c2.engine.canSeek
                                  THEN Engine_seek(c2.engine, targetStep)
                                  ELSE c2.engine],
       LAMBDA c3 :
       AnimationController_render(AnimationController_notifyListeners(
         IF c3.currentStep >= c3.totalSteps
         THEN AnimationController_stopAnimationLoop(
                [c3 EXCEPT !.playbackState = "done"])
         ELSE IF c3.playbackState = "done"
         THEN [c3 EXCEPT !.playbackState = "paused"]
         ELSE c3)))))))

AnimationController_seekTo(c, step) ==
  IF c.engine = Null THEN c
  ELSE IF ~c.engine.canSeek THEN c
  ELSE Then(Max(0, Min(step, c.totalSteps)),
       LAMBDA targetStep :
       Then(AnimationController_replay(
              AnimationController_resetArrayState(c, c.initialArray),
              0, targetStep - 1),
       LAMBDA c1 :
       Then(IF targetStep > 0 /\ targetStep <= c1.totalSteps
            THEN Engine_getEventAt(c1.engine, targetStep - 1)
            ELSE Null,
       LAMBDA last :
       Then(IF last # Null THEN AnimationController_applyVisualState(c1, last)
            ELSE c1,
       LAMBDA c2 :
       Then([c2 EXCEPT !.currentStep = targetStep,
                       !.engine = IF c2.engine.canSeek
                                  THEN Engine_seek(c2.engine, targetStep)
                                  ELSE c2.engine],
       LAMBDA c3 :
       AnimationController_render(AnimationController_notifyListeners(
         IF c3.currentStep >= c3.totalSteps
         THEN AnimationController_stopAnimationLoop(
                [c3 EXCEPT !.playbackState = "done"])
         ELSE IF c3.playbackState = "done"
         THEN [c3 EXCEPT !.playbackState = "paused"]
         ELSE c3)))))))

AnimationController_setSpeed(c, speed) ==
  AnimationController_notifyListeners(
    [c EXCEPT !.speed = Max(SPEED_MIN, Min(SPEED_MAX, speed))])

\* msPerEvent = 1000 / (BASE_EVENTS_PER_SECOND * speed), in units of 1/6 ms
\* and with the speed in tenths.
MsPerEvent(speed) == (1000 * 6 * 10) \div (BASE_EVENTS_PER_SECOND * speed)

\* Mutant: the later half of the batch is applied before the earlier half.
RECURSIVE AnimationController_applyBatch_laterFirst(_, _, _, _)
AnimationController_applyBatch_laterFirst(c, batch, lo, hi) ==
  IF lo > hi THEN c
  ELSE IF lo = hi
  THEN [AnimationController_applyEventToArray(c, batch[lo])
          EXCEPT !.currentStep = c.currentStep + 1]
  ELSE Then(AnimationController_applyBatch_laterFirst(c, batch, (lo + hi) \div 2 + 1, hi),
       LAMBDA v : AnimationController_applyBatch_laterFirst(v, batch, lo, (lo + hi) \div 2))

\* The forward loop of animate, "for (const event of batch)": its iterations
\* lo .. hi in order.  (The range is halved so that the evaluation nests
\* only logarithmically deep; the iterations run left to right.)
RECURSIVE AnimationController_applyBatch(_, _, _, _)
AnimationController_applyBatch(c, batch, lo, hi) ==
  IF lo > hi THEN c
  ELSE IF lo = hi
  THEN [AnimationController_applyEventToArray(c, batch[lo])
          EXCEPT !.currentStep = c.currentStep + 1]
  ELSE Then(AnimationController_applyBatch(c, batch, lo, (lo + hi) \div 2),
       LAMBDA v : AnimationController_applyBatch(v, batch, (lo + hi) \div 2 + 1, hi))

\* Mutant: the backward loop leaves at an unavailable event without pausing.
AnimationController_rewindOne_noPause(r) ==
  IF r.broken \/ ~(r.c.currentStep > 0) THEN [r EXCEPT !.broken = TRUE]
  ELSE Then(Engine_getEventAt(r.c.engine, r.c.currentStep - 1),
       LAMBDA event :
       IF event = Null
       THEN [r EXCEPT !.broken = TRUE]
       ELSE [r EXCEPT !.appliedBackward = TRUE,
                      !.c = AnimationController_applyEventToArray(
                              [r.c EXCEPT !.currentStep = r.c.currentStep - 1],
                              inverseEvent(event))])

\* One iteration of the backward loop of animate.  r.c is the controller,
\* r.appliedBackward the flag, r.broken whether the loop has been left.
AnimationController_rewindOne(r) ==
  IF r.broken \/ ~(r.c.currentStep > 0) THEN [r EXCEPT !.broken = TRUE]
  ELSE Then(Engine_getEventAt(r.c.engine, r.c.currentStep - 1),
       LAMBDA event :
       IF event = Null
       THEN [r EXCEPT !.broken = TRUE,
                      !.c = IF ~r.c.engine.canSeek
                            THEN AnimationController_stopAnimationLoop(
                                   [r.c EXCEPT !.playbackState = "paused"])
                            ELSE r.c]
       ELSE [r EXCEPT !.appliedBackward = TRUE,
                      !.c = AnimationController_applyEventToArray(
                              [r.c EXCEPT !.currentStep = r.c.currentStep - 1],
                              inverseEvent(event))])

\* The backward loop of animate: its iterations lo .. hi in order.
RECURSIVE AnimationController_rewind(_, _, _)
AnimationController_rewind(r, lo, hi) ==
  IF lo > hi THEN r
  ELSE IF lo = hi THEN AnimationController_rewindOne(r)
  ELSE Then(AnimationController_rewind(r, lo, (lo + hi) \div 2),
       LAMBDA v : AnimationController_rewind(v, (lo + hi) \div 2 + 1, hi))

\* animate, forward branch: the batch is taken from the engine and applied,
\* the visual state of its last event shown.
AnimationController_animateForward(c0, eventsToProcess) ==
  Then(Engine_getNextEvents_ret(c0.engine, eventsToProcess),
  LAMBDA batch :
  Then(AnimationController_applyBatch(
         [c0 EXCEPT !.engine = Engine_getNextEvents(c0.engine, eventsToProcess)],
         batch, 1, Len(batch)),
  LAMBDA cb :
  IF Len(batch) > 0
  THEN AnimationController_applyVisualState(cb, batch[Len(batch)])
  ELSE cb))

\* animate, backward branch.
AnimationController_animateBackward(c0, eventsToProcess) ==
  Then(AnimationController_rewind(
         [c |-> c0, appliedBackward |-> FALSE, broken |-> FALSE],
         1, eventsToProcess),
  LAMBDA r :
  Then(IF r.appliedBackward
       THEN AnimationController_applyVisualStateForStep(r.c, r.c.currentStep)
       ELSE r.c,
  LAMBDA cv : [cv EXCEPT !.engine = Engine_seek(cv.engine, cv.currentStep)]))

\* Mutant: on the materializing engine completion is seen only once the
\* position has gone past totalSteps.
AnimationController_checkCompletion_late(c2) ==
  IF c2.direction = "forward"
  THEN IF c2.engine = Null THEN c2
       ELSE IF c2.engine.canSeek /\ c2.currentStep > c2.totalSteps
       THEN AnimationController_stopAnimationLoop(
              [c2 EXCEPT !.playbackState = "done"])
       ELSE IF ~c2.engine.canSeek /\ Engine_isDone(c2.engine)
       THEN [AnimationController_stopAnimationLoop(
               [c2 EXCEPT !.playbackState = "done"])
               EXCEPT !.totalSteps = c2.currentStep]
       ELSE c2
  ELSE IF c2.currentStep <= 0
  THEN AnimationController_stopAnimationLoop(
         [c2 EXCEPT !.playbackState = "paused"])
  ELSE c2

\* animate, "Check for completion".
AnimationController_checkCompletion(c2) ==
  IF c2.direction = "forward"
  THEN IF c2.engine = Null THEN c2
       ELSE IF c2.engine.canSeek /\ c2.currentStep >= c2.totalSteps
       THEN AnimationController_stopAnimationLoop(
              [c2 EXCEPT !.playbackState = "done"])
       ELSE IF ~c2.engine.canSeek /\ Engine_isDone(c2.engine)
       THEN [AnimationController_stopAnimationLoop(
               [c2 EXCEPT !.playbackState = "done"])
               EXCEPT !.totalSteps = c2.currentStep]
       ELSE c2
  ELSE IF c2.currentStep <= 0
  THEN AnimationController_stopAnimationLoop(
         [c2 EXCEPT !.playbackState = "paused"])
  ELSE c2

\* Mutant: the frame drops the time left over after its events.
AnimationController_animate_dropRemainder(c, deltaTime) ==
  IF c.playbackState # "playing" THEN c
  ELSE
  Then(MsPerEvent(c.speed),
  LAMBDA msPerEvent :
  Then(c.accumulatedTime + deltaTime,
  LAMBDA accumulated :
  Then(accumulated \div msPerEvent,
  LAMBDA eventsToProcess :
  Then(IF eventsToProcess > 0 /\ c.engine # Null
       THEN Then([c EXCEPT !.accumulatedTime = 0],
            LAMBDA c0 :
            IF c0.direction = "forward"
            THEN AnimationController_animateForward(c0, eventsToProcess)
            ELSE AnimationController_animateBackward(c0, eventsToProcess))
       ELSE [c EXCEPT !.accumulatedTime = accumulated],
  LAMBDA c1 :
  Then(IF c1.engine # Null
       THEN IF ~c1.engine.canSeek
            THEN [c1 EXCEPT !.totalSteps = Engine_getTotalEvents(c1.engine)]
            ELSE c1
       ELSE c1,
  LAMBDA c2 :
  Then(AnimationController_render(AnimationController_notifyListeners(
         AnimationController_checkCompletion(c2))),
  LAMBDA c4 :
  IF c4.playbackState = "playing"
  THEN [c4 EXCEPT !.animationId = 1, !.pendingFrame = TRUE]
  ELSE c4))))))

\* The callback animate(time) with deltaTime = time - lastFrameTime.
AnimationController_animate(c, deltaTime) ==
  IF c.playbackState # "playing" THEN c
  ELSE
  Then(MsPerEvent(c.speed),
  LAMBDA msPerEvent :
  Then(c.accumulatedTime + deltaTime,
  LAMBDA accumulated :
  Then(accumulated \div msPerEvent,
  LAMBDA eventsToProcess :
  Then(IF eventsToProcess > 0 /\ c.engine # Null
       THEN Then([c EXCEPT !.accumulatedTime =
                             accumulated - eventsToProcess * msPerEvent],
            LAMBDA c0 :
            IF c0.direction = "forward"
            THEN AnimationController_animateForward(c0, eventsToProcess)
            ELSE AnimationController_animateBackward(c0, eventsToProcess))
       ELSE [c EXCEPT !.accumulatedTime = accumulated],
  LAMBDA c1 :
  Then(IF c1.engine # Null
       THEN IF ~c1.engine.canSeek
            THEN [c1 EXCEPT !.totalSteps = Engine_getTotalEvents(c1.engine)]
            ELSE c1
       ELSE c1,
  LAMBDA c2 :
  Then(AnimationController_render(AnimationController_notifyListeners(
         AnimationController_checkCompletion(c2))),
  LAMBDA c4 :
  IF c4.playbackState = "playing"
  THEN [c4 EXCEPT !.animationId = 1, !.pendingFrame = TRUE]
  ELSE c4))))))

\* The count animate hands to the engine in this frame (getNextEvents
\* forward, loop bound backward): eventsToProcess, 0 when it asks nothing.
AnimationController_animate_requested(c, deltaTime) ==
  IF c.playbackState # "playing" THEN 0
  ELSE Then((c.accumulatedTime + deltaTime) \div MsPerEvent(c.speed),
       LAMBDA eventsToProcess :
       IF eventsToProcess > 0 /\ c.engine # Null THEN eventsToProcess ELSE 0)

(***************************************************************************)
(* The runs.  A run is an input array and the event sequence the algorithm *)
(* provider emits for it: every Overwrite records the value its index held *)
(* just before it, every ExitRange closes the innermost open range, and a  *)
(* non-empty run ends with Done.                                           *)
(***************************************************************************)
Input == <<2, 1>>

Values == {1, 2}

Ranges == {[lo |-> 0, hi |-> 1], [lo |-> 1, hi |-> 1]}

\* The event model's meaning of one event on an array (spec section 3).
RefApply(a, e) ==
  CASE e.type = "Swap" ->
         [k \in 1..Len(a) |-> IF k = e.i + 1 THEN a[e.j + 1]
                              ELSE IF k = e.j + 1 THEN a[e.i + 1] ELSE a[k]]
    [] e.type = "Overwrite" ->
         [k \in 1..Len(a) |-> IF k = e.idx + 1 THEN e.new_val ELSE a[k]]
    [] OTHER -> a

\* The event model's meaning of one event on the stack of open ranges.
RefNest(st, e) ==
  CASE e.type = "EnterRange" -> Append(st, [lo |-> e.lo, hi |-> e.hi])
    [] e.type = "ExitRange" -> SubSeq(st, 1, Len(st) - 1)
    [] OTHER -> st

\* The events that may follow a prefix that led to array a and open ranges st.
Following(a, st) ==
  {Swap(0, 1), Compare(0, 1)}
    \cup {Overwrite(idx, a[idx + 1], v) : idx \in {0, 1}, v \in Values}
    \cup {EnterRange(r.lo, r.hi) : r \in Ranges}
    \cup (IF Len(st) > 0
          THEN {ExitRange(st[Len(st)].lo, st[Len(st)].hi)} ELSE {})

\* The valid event prefixes of exactly n events, each with the array and the
\* open ranges it leads to.
RECURSIVE Prefixes(_)
Prefixes(n) ==
  IF n = 0 THEN {[events |-> <<>>, array |-> Input, open |-> <<>>]}
  ELSE UNION {{[events |-> Append(q.events, e),
                array |-> RefApply(q.array, e),
                open |-> RefNest(q.open, e)] : e \in Following(q.array, q.open)} :
              q \in Prefixes(n - 1)}

\* Every valid run of at most MaxLen events followed by Done.
ShortRuns ==
  {[input |-> Input, events |-> Append(q.events, Done)] :
     q \in UNION {Prefixes(n) : n \in 0..MaxLen}}

\* A long run: a cycle of six events that opens a range, compares, swaps,
\* overwrites both elements back and closes the range; Done is last.
PatternEvent(i) ==
  CASE i % 6 = 1 -> EnterRange(0, 1)
    [] i % 6 = 2 -> Compare(0, 1)
    [] i % 6 = 3 -> Swap(0, 1)
    [] i % 6 = 4 -> Overwrite(0, 1, 2)
    [] i % 6 = 5 -> Overwrite(1, 2, 1)
    [] OTHER -> ExitRange(0, 1)

PatternRun(n) ==
  [input |-> Input,
   events |-> [i \in 1..n |-> IF i = n THEN Done ELSE PatternEvent(i)]]

\* One event more than the retention window of the streaming engine holds,
\* and LongExtra on top.
LongLen == BATCH_SIZE * BUFFER_BATCHES + LongExtra

\* More events than twice the window.
HugeLen == BATCH_SIZE * BUFFER_BATCHES * 2 + HugeExtra

EmptyRun == [input |-> Input, events |-> <<>>]

Runs == ShortRuns \cup {EmptyRun, PatternRun(LongLen)}

\* Inputs of the operations.
EngineKinds == {"pregen", "live"}

Deltas == {50, 300}

SpeedInputs == {10, 200}

SeekTargets == (-1 .. MaxLen + 2) \cup {LongLen - 1, LongLen + 5}

NewEngine(kind) == IF kind = "live" THEN LiveEngine_new ELSE PregenEngine_new

(***************************************************************************)
(* Spec: one controller, bound by initialize to an engine of either kind,  *)
(* under any sequence of its operations and frame ticks.                   *)
(***************************************************************************)
Init ==
  /\ provider \in Runs
  /\ ctl = AnimationController_new
  /\ twin = Null
  /\ eng = Null
  /\ ret = Null
  /\ lab = Off

Initialize(kind) ==
  /\ ctl' = AnimationController_initialize(ctl, NewEngine(kind), "sort", provider.input)
  /\ UNCHANGED <<provider, twin, eng, ret, lab>>

Play ==
  /\ ctl' = AnimationController_play(ctl)
  /\ UNCHANGED <<provider, twin, eng, ret, lab>>

PlayBackward ==
  /\ ctl' = AnimationController_playBackward(ctl)
  /\ UNCHANGED <<provider, twin, eng, ret, lab>>

Pause ==
  /\ ctl' = AnimationController_pause(ctl)
  /\ UNCHANGED <<provider, twin, eng, ret, lab>>

Stop ==
  /\ ctl' = AnimationController_stop(ctl)
  /\ UNCHANGED <<provider, twin, eng, ret, lab>>

Reset ==
  /\ ctl' = AnimationController_reset(ctl)
  /\ UNCHANGED <<provider, twin, eng, ret, lab>>

StepForward ==
  /\ ctl' = AnimationController_stepForward(ctl)
  /\ UNCHANGED <<provider, twin, eng, ret, lab>>

StepBackward ==
  /\ ctl' = AnimationController_stepBackward(ctl)
  /\ UNCHANGED <<provider, twin, eng, ret, lab>>

SeekTo(step) ==
  /\ ctl' = AnimationController_seekTo(ctl, step)
  /\ UNCHANGED <<provider, twin, eng, ret, lab>>

SetSpeed(speed) ==
  /\ ctl' = AnimationController_setSpeed(ctl, speed)
  /\ UNCHANGED <<provider, twin, eng, ret, lab>>

\* The host runs the queued frame callback.
Tick(deltaTime) ==
  /\ ctl.pendingFrame
  /\ ctl.accumulatedTime < MaxAccumulated
  /\ ctl' = AnimationController_animate([ctl EXCEPT !.pendingFrame = FALSE], deltaTime)
  /\ UNCHANGED <<provider, twin, eng, ret, lab>>

Next ==
  \/ \E kind \in EngineKinds : Initialize(kind)
  \/ Play
  \/ PlayBackward
  \/ Pause
  \/ Stop
  \/ Reset
  \/ StepForward
  \/ StepBackward
  \/ \E step \in SeekTargets : SeekTo(step)
  \/ \E speed \in SpeedInputs : SetSpeed(speed)
  \/ \E deltaTime \in Deltas : Tick(deltaTime)

Spec == Init /\ [][Next]_vars

(***************************************************************************)
(* Reference semantics of a run: the array after events [0..p) have been   *)
(* applied in order to the input.                                          *)
(***************************************************************************)
RECURSIVE Replay(_, _, _)
Replay(input, events, p) ==
  IF p = 0 THEN input ELSE RefApply(Replay(input, events, p - 1), events[p])

Bound(c) == c.engine # Null

\* C1: on an initialized run, after any sequence of controller operations
\* and frame ticks, the working array is the input with events
\* [0..currentStep) applied in order.
C1_ArrayIsReplay ==
  Bound(ctl) =>
    /\ ctl.currentStep \in 0..Len(provider.events)
    /\ ctl.array = Replay(provider.input, provider.events, ctl.currentStep)

\* C1 witness: a streaming run rewound by backward playback to a position
\* inside the run at which the array differs from the input.
C1_Witness ==
  /\ Bound(ctl)
  /\ IsLive(ctl.engine)
  /\ ctl.direction = "backward"
  /\ ctl.playbackState = "playing"
  /\ ctl.currentStep > 0
  /\ ctl.currentStep < ctl.totalSteps
  /\ ctl.array # ctl.initialArray
  /\ ctl.engine.bufferStart > 0

\* n calls of stepForward.
RECURSIVE StepsForward(_, _)
StepsForward(c, n) ==
  IF n = 0 THEN c
  ELSE Then(AnimationController_stepForward(c),
            LAMBDA v : StepsForward(v, n - 1))

SameView(a, b) ==
  /\ a.array = b.array
  /\ a.rangeStack = b.rangeStack
  /\ a.highlights = b.highlights

\* C4: on the materializing (pre-generated) engine, from every position
\* and for every p in 0..N, seekTo(p) gives the same array, range stack and
\* highlights as seekTo(0) followed by p calls of stepForward.
C4_SeekIsSteps ==
  (Bound(ctl) /\ ~IsLive(ctl.engine)) =>
    \A p \in 0..Len(provider.events) :
      SameView(AnimationController_seekTo(ctl, p),
               StepsForward(AnimationController_seekTo(ctl, 0), p))

\* C4 witness: the controller stands late in the long run with another
\* array than the input; seekTo to an earlier position, inside an open
\* range and after a Swap, changes the array and agrees with the steps.
C4_Witness ==
  /\ Bound(ctl) /\ ~IsLive(ctl.engine)
  /\ Len(provider.events) = LongLen
  /\ ctl.currentStep = 4
  /\ ctl.array # ctl.initialArray
  /\ LET a == AnimationController_seekTo(ctl, 3)
     IN  /\ a.currentStep = 3
         /\ a.array # ctl.array
         /\ a.rangeStack # <<>>
         /\ a.highlights # <<>>
         /\ SameView(a, StepsForward(AnimationController_seekTo(ctl, 0), 3))

\* The events applied by the next frame or the next stepForward of c are
\* the events of the run from event 0 on.
StartsAtFirstEvent(c) ==
  /\ \A deltaTime \in Deltas :
       LET a == AnimationController_animate([c EXCEPT !.pendingFrame = FALSE], deltaTime)
       IN  a.array = Replay(provider.input, provider.events, a.currentStep)
  /\ LET b == AnimationController_stepForward(c)
     IN  /\ b.currentStep = Min(1, Len(provider.events))
         /\ b.array = Replay(provider.input, provider.events, b.currentStep)

\* C10: play() called while playbackState is 'done' leaves position 0, the
\* array equal to the input and the engine cursor at 0, in state 'playing'
\* with direction forward, so that the first event applied next is event 0.
C10_PlayWhenDoneRestarts ==
  [][(ctl.playbackState = "done" /\ ctl' = AnimationController_play(ctl)) =>
       /\ ctl'.playbackState = "playing"
       /\ ctl'.direction = "forward"
       /\ ctl'.currentStep = 0
       /\ ctl'.array = provider.input
       /\ Engine_getCurrentPosition(ctl'.engine) = 0
       /\ StartsAtFirstEvent(ctl')]_vars

\* C10 witness: the playback is done at the end of a run that changed the
\* array, and play() takes the controller from there to position 0,
\* playing.
C10_Witness ==
  /\ ctl.playbackState = "done"
  /\ IsLive(ctl.engine)
  /\ ctl.currentStep = Len(provider.events)
  /\ ctl.array # provider.input
  /\ LET a == AnimationController_play(ctl)
     IN  /\ a.playbackState = "playing"
         /\ a.currentStep = 0
         /\ a.array = provider.input
         /\ a.pendingFrame

\* The highlights the event model derives from one event.
RefHighlights(e) ==
  CASE e.type = "Compare" -> <<[kind |-> "comparing", indices |-> <<e.i, e.j>>]>>
    [] e.type = "Swap" -> <<[kind |-> "swapping", indices |-> <<e.i, e.j>>]>>
    [] e.type = "Overwrite" -> <<[kind |-> "writing", indices |-> <<e.idx>>]>>
    [] OTHER -> <<>>

\* Controller c shows the event before its position: the highlights of
\* event p-1 and the sorted flag when that event is Done; nothing at p = 0.
ShowsLastEvent(c) ==
  IF c.currentStep = 0 THEN c.highlights = <<>> /\ ~c.isSorted
  ELSE /\ c.highlights = RefHighlights(provider.events[c.currentStep])
       /\ c.isSorted = (provider.events[c.currentStep].type = "Done")

\* C11: after a stepForward or stepBackward that moves the controller to
\* position p, the highlights are those derived from event p-1, and there
\* are none at p = 0.
C11_StepShowsLastEvent ==
  [][((\/ ctl' = AnimationController_stepForward(ctl)
       \/ ctl' = AnimationController_stepBackward(ctl))
      /\ ctl'.currentStep # ctl.currentStep) => ShowsLastEvent(ctl')]_vars

\* Event p-1 of controller c at position p > 0 is behind the buffer of its
\* streaming engine.
LastEventTrimmed(c) ==
  /\ c.currentStep > 0
  /\ IsLive(c.engine)
  /\ c.currentStep - 1 < c.engine.bufferStart

\* C11 as amended: after a stepForward or stepBackward that moves the
\* controller to position p, the highlights are those derived from event
\* p-1 and there are none at p = 0; on the streaming engine, when event p-1
\* is behind the buffer, there are no highlights and the sorted flag is off.
C11_StepShowsLastEventInBuffer ==
  [][((\/ ctl' = AnimationController_stepForward(ctl)
       \/ ctl' = AnimationController_stepBackward(ctl))
      /\ ctl'.currentStep # ctl.currentStep) =>
       IF LastEventTrimmed(ctl')
       THEN ctl'.highlights = <<>> /\ ~ctl'.isSorted
       ELSE ShowsLastEvent(ctl')]_vars

\* C11 witness: on the streaming engine, with the start of the buffer
\* trimmed, stepBackward lands on a position whose last event is a Swap
\* still in the buffer, and shows it.
C11_Witness ==
  /\ Bound(ctl) /\ IsLive(ctl.engine)
  /\ ctl.engine.bufferStart > 0
  /\ LET a == AnimationController_stepBackward(ctl)
     IN  /\ a.currentStep = ctl.currentStep - 1
         /\ ~LastEventTrimmed(a)
         /\ a.highlights # ctl.highlights
         /\ a.highlights = <<[kind |-> "swapping", indices |-> <<0, 1>>]>>
         /\ ShowsLastEvent(a)

\* The EnterRange events of events[1..p] not yet matched by an ExitRange,
\* innermost last.
RECURSIVE OpenRanges(_, _)
OpenRanges(events, p) ==
  IF p = 0 THEN <<>> ELSE RefNest(OpenRanges(events, p - 1), events[p])

\* C12: the stack of active ranges is the stack of EnterRange events of
\* [0..position) not yet closed, and the active range, also the one handed
\* to the renderer, is its top, or null when it is empty, in every
\* reachable state.
C12_RangeStackIsOpenRanges ==
  Bound(ctl) =>
    /\ ctl.rangeStack = OpenRanges(provider.events, ctl.currentStep)
    /\ ctl.activeRange = IF ctl.rangeStack = <<>> THEN Null
                         ELSE ctl.rangeStack[Len(ctl.rangeStack)]
    /\ ctl.rendered # Null => ctl.rendered.activeRange = ctl.activeRange

\* C12 witness: moving backward, the controller stands just before an
\* ExitRange it has undone, inside the range again.
C12_Witness ==
  /\ Bound(ctl)
  /\ ctl.direction = "backward"
  /\ ctl.currentStep > 0
  /\ ctl.currentStep < Len(provider.events)
  /\ provider.events[ctl.currentStep + 1].type = "ExitRange"
  /\ Len(ctl.rangeStack) = 1
  /\ ctl.activeRange = [lo |-> 0, hi |-> 1]
  /\ ctl.rendered.activeRange = ctl.activeRange

\* C20: on a random-seek engine seekTo(target), for any integer target,
\* completes, leaves the position at target clamped into [0, totalSteps]
\* and the working array equal to the input with events [0..position)
\* applied; the position it publishes is that position.
C20_SeekToClamps ==
  (Bound(ctl) /\ ctl.engine.canSeek) =>
    \A target \in SeekTargets :
      \A after \in {AnimationController_seekTo(ctl, target)} :
        /\ after.currentStep = Max(0, Min(target, ctl.totalSteps))
        /\ after.array = Replay(provider.input, provider.events, after.currentStep)
        /\ after.notified.currentStep = after.currentStep
        /\ after.engine.position = after.currentStep

\* C20 witness: a controller in the middle of the long run, its array
\* changed, for which seekTo(-1) lands on 0 with the input array and a
\* target past the end lands on the last position.
C20_Witness ==
  /\ Bound(ctl) /\ ctl.engine.canSeek
  /\ ctl.totalSteps = LongLen
  /\ ctl.currentStep = 3
  /\ ctl.array # ctl.initialArray
  /\ AnimationController_seekTo(ctl, -1).currentStep = 0
  /\ AnimationController_seekTo(ctl, -1).array = provider.input
  /\ AnimationController_seekTo(ctl, LongLen + 5).currentStep = LongLen

(***************************************************************************)
(* SpecPlay: forward playback alone.  An engine of either kind is bound,   *)
(* play() is called at position 0, and from then on only animation frames  *)
(* (of any delta) and speed changes happen.                                *)
(***************************************************************************)
Bind(kind) == ~Bound(ctl) /\ Initialize(kind)

PlayFromStart ==
  /\ Bound(ctl)
  /\ ctl.playbackState = "idle"
  /\ ctl.currentStep = 0
  /\ Play

NextPlay ==
  \/ \E kind \in EngineKinds : Bind(kind)
  \/ PlayFromStart
  \/ \E deltaTime \in Deltas : Tick(deltaTime)
  \/ \E speed \in SpeedInputs : SetSpeed(speed)

SpecPlay == Init /\ [][NextPlay]_vars

\* C5: every forward playback from position 0 that reaches 'done', under
\* any frame deltas and speeds and on either engine, ends with the array
\* obtained by applying every event of the run once, in order, to the input.
C5_PlaybackEndsWithFullReplay ==
  ctl.playbackState = "done" =>
    ctl.array = Replay(provider.input, provider.events, Len(provider.events))

\* C5 witness: the long run has been played to 'done' on the streaming
\* engine at another speed than the default, and the array had to change
\* on the way.
C5_Witness ==
  /\ ctl.playbackState = "done"
  /\ IsLive(ctl.engine)
  /\ Len(provider.events) = LongLen
  /\ ctl.speed # SPEED_DEFAULT
  /\ ctl.currentStep = LongLen
  /\ ctl.isSorted

\* SpecPlayFair: SpecPlay with the browser delivering every frame that has
\* been requested: requestAnimationFrame callbacks are not starved.
SpecPlayFair ==
  SpecPlay /\ WF_vars(\E deltaTime \in Deltas : Tick(deltaTime))

\* C24: after play() on an initialized engine of either kind, frames that
\* keep coming bring playbackState to 'done' with the position at the total
\* number of events of the run, whatever the length of the run.
C24_PlaybackReachesDone ==
  (Bound(ctl) /\ ctl.playbackState = "playing") ~>
    (ctl.playbackState = "done" /\ ctl.currentStep = Len(provider.events))

(***************************************************************************)
(* SpecLive: a streaming engine on its own, under any sequence of the      *)
(* operations of its interface.  ret records the last operation, its       *)
(* argument and what it returned, and for getEventAt the engine before it. *)
(***************************************************************************)
LiveRuns == {EmptyRun, PatternRun(1), PatternRun(LongLen), PatternRun(HugeLen)}

Counts == {-1, 1, BATCH_SIZE + 1}

Positions == -1 .. HugeLen + 1

Called(op, arg, value, before) ==
  [op |-> op, arg |-> arg, value |-> value, before |-> before]

InitLive ==
  /\ provider \in LiveRuns
  /\ ctl = AnimationController_new
  /\ twin = Null
  /\ eng = LiveEngine_new
  /\ ret = Called("new", 0, Null, Null)
  /\ lab = Off

LiveInitialize ==
  /\ eng' = LiveEngine_initialize(eng, "sort", provider.input)
  /\ ret' = Called("initialize", 0, Null, Null)
  /\ UNCHANGED <<provider, ctl, twin, lab>>

LiveGetNextEvents(count) ==
  /\ eng' = LiveEngine_getNextEvents(eng, count)
  /\ ret' = Called("getNextEvents", count,
                   LiveEngine_getNextEvents_ret(eng, count), Null)
  /\ UNCHANGED <<provider, ctl, twin, lab>>

LiveGetEventAt(index) ==
  /\ eng' = eng
  /\ ret' = Called("getEventAt", index, LiveEngine_getEventAt(eng, index), eng)
  /\ UNCHANGED <<provider, ctl, twin, lab>>

LiveSeek(position) ==
  /\ eng' = LiveEngine_seek(eng, position)
  /\ ret' = Called("seek", position, Null, Null)
  /\ UNCHANGED <<provider, ctl, twin, lab>>

LiveReset ==
  /\ eng' = LiveEngine_reset(eng)
  /\ ret' = Called("reset", 0, Null, Null)
  /\ UNCHANGED <<provider, ctl, twin, lab>>

NextLive ==
  \/ LiveInitialize
  \/ \E count \in Counts : LiveGetNextEvents(count)
  \/ \E index \in Positions : LiveGetEventAt(index)
  \/ \E position \in Positions : LiveSeek(position)
  \/ LiveReset

SpecLive == InitLive /\ [][NextLive]_vars

\* C6: on the streaming engine bufferStart <= position <= bufferStart +
\* eventBuffer.length after every operation, in any order.
C6_CursorInsideBuffer ==
  /\ eng.bufferStart <= eng.position
  /\ eng.position <= eng.bufferStart + Len(eng.eventBuffer)

\* C6 witness: after a seek the cursor stands strictly inside a buffer
\* whose start has been trimmed forward.
C6_Witness ==
  /\ ret.op = "seek"
  /\ eng.position = ret.arg
  /\ eng.bufferStart > 0
  /\ eng.bufferStart < eng.position
  /\ eng.position < eng.bufferStart + Len(eng.eventBuffer)

\* C7: the streaming engine never buffers more than batchSize x
\* bufferBatches x 2 events, whatever the length of the run.
C7_BufferBounded == Len(eng.eventBuffer) <= BATCH_SIZE * BUFFER_BATCHES * 2

\* The retention window of the streaming engine, in events.
Window == BATCH_SIZE * BUFFER_BATCHES

InsideBuffer(e, index) ==
  index >= e.bufferStart /\ index < e.bufferStart + Len(e.eventBuffer)

\* C8: getEventAt(index) on the streaming engine returns null exactly when
\* index is outside [bufferStart, bufferStart + eventBuffer.length), and
\* leaves the engine as it was; after getNextEvents has moved the position
\* more than the retention window past an index, that index is unavailable.
C8_UnavailableOutsideBuffer ==
  /\ ret.op = "getEventAt" =>
       /\ (ret.value = Null) <=> ~InsideBuffer(ret.before, ret.arg)
       /\ eng = ret.before
  /\ ret.op = "getNextEvents" =>
       \A index \in Positions :
         eng.position - index > Window => LiveEngine_getEventAt(eng, index) = Null

\* C8 witness: getEventAt has returned null for an index of the run that
\* consumption has left more than the retention window behind.
C8_Witness ==
  /\ ret.op = "getEventAt"
  /\ ret.value = Null
  /\ ret.arg >= 0
  /\ ret.arg < eng.bufferStart
  /\ eng.position - ret.arg > Window

(***************************************************************************)
(* SpecEngines: an engine of either kind on its own, under any sequence of *)
(* the operations of ISortEngine, initialize resolving or rejecting.  ret  *)
(* records the last operation, its argument and what it returned, and for  *)
(* reset the engine before it.                                             *)
(***************************************************************************)
EngineCounts == {0, 1, BATCH_SIZE + 1, BATCH_SIZE * 2 + 1}

\* What a call that threw or a promise that rejected has returned.
Rejected == [type |-> "error"]

InitEngines ==
  /\ provider \in LiveRuns
  /\ ctl = AnimationController_new
  /\ twin = Null
  /\ eng \in {NewEngine(kind) : kind \in EngineKinds}
  /\ ret = Called("new", 0, Null, Null)
  /\ lab = Off

EngineInitialize ==
  /\ eng' = Engine_initialize(eng, "sort", provider.input)
  /\ ret' = Called("initialize", 0, Null, Null)
  /\ UNCHANGED <<provider, ctl, twin, lab>>

EngineInitializeFails ==
  /\ eng' = Engine_initializeFails(eng, "sort", provider.input)
  /\ ret' = Called("initialize", 0, Rejected, Null)
  /\ UNCHANGED <<provider, ctl, twin, lab>>

EngineGetNextEvents(count) ==
  /\ eng' = Engine_getNextEvents(eng, count)
  /\ ret' = Called("getNextEvents", count, Engine_getNextEvents_ret(eng, count), Null)
  /\ UNCHANGED <<provider, ctl, twin, lab>>

EngineGetEventAt(index) ==
  /\ eng' = eng
  /\ ret' = Called("getEventAt", index, Engine_getEventAt(eng, index), Null)
  /\ UNCHANGED <<provider, ctl, twin, lab>>

EngineSeek(position) ==
  /\ eng' = Engine_seek(eng, position)
  /\ ret' = Called("seek", position, Null, Null)
  /\ UNCHANGED <<provider, ctl, twin, lab>>

EngineReset ==
  /\ eng' = Engine_reset(eng)
  /\ ret' = Called("reset", 0, Null, eng)
  /\ UNCHANGED <<provider, ctl, twin, lab>>

EngineIsDone ==
  /\ eng' = eng
  /\ ret' = Called("isDone", 0, Engine_isDone(eng), Null)
  /\ UNCHANGED <<provider, ctl, twin, lab>>

NextEngines ==
  \/ EngineInitialize
  \/ EngineInitializeFails
  \/ \E count \in EngineCounts : EngineGetNextEvents(count)
  \/ \E index \in Positions : EngineGetEventAt(index)
  \/ \E position \in Positions : EngineSeek(position)
  \/ EngineReset
  \/ EngineIsDone

SpecEngines == InitEngines /\ [][NextEngines]_vars

\* C14: on both engines getNextEvents(count) returns at most count events,
\* they are the events of the run that follow the cursor, in run order, and
\* the cursor moves on by the number of events returned.
C14_NextEventsFollowCursor ==
  [][ret'.op = "getNextEvents" =>
       /\ Len(ret'.value) <= ret'.arg
       /\ ret'.value = Slice(provider.events, Engine_getCurrentPosition(eng),
                             Engine_getCurrentPosition(eng) + Len(ret'.value))
       /\ Engine_getCurrentPosition(eng') =
            Engine_getCurrentPosition(eng) + Len(ret'.value)]_vars

\* C14 witness: a batch cut short by the end of the run, on the streaming
\* engine, starting from a cursor inside the run.
C14_Witness ==
  /\ ret.op = "getNextEvents"
  /\ IsLive(eng)
  /\ Len(ret.value) > 0
  /\ Len(ret.value) < ret.arg
  /\ eng.position = Len(provider.events)
  /\ eng.bufferStart > 0

\* C15: on the streaming engine seek(position) with a target outside
\* [bufferStart, bufferStart + eventBuffer.length] changes no field of the
\* engine; with a target inside it sets the cursor and nothing else.
C15_SeekOnlyInsideBuffer ==
  [][(ret'.op = "seek" /\ IsLive(eng)) =>
       IF /\ ret'.arg >= eng.bufferStart
          /\ ret'.arg <= eng.bufferStart + Len(eng.eventBuffer)
       THEN eng' = [eng EXCEPT !.position = ret'.arg]
       ELSE eng' = eng]_vars

\* C15 witness: a seek to an index of the run that has been trimmed from
\* the buffer has left the cursor where it was.
C15_Witness ==
  /\ ret.op = "seek"
  /\ IsLive(eng)
  /\ ret.arg >= 0
  /\ ret.arg < eng.bufferStart
  /\ eng.position # ret.arg

\* An engine that has been initialized with an input, and the same kind of
\* engine right after initialize with the input of the run.
Initialized(e) == IF IsLive(e) THEN e.stepper # Null ELSE e.initialized

JustInitialized(e) ==
  Engine_initialize(IF IsLive(e) THEN LiveEngine_new ELSE PregenEngine_new,
                    "sort", provider.input)

\* C16: after reset() on either engine, from any state of an initialized
\* engine, the cursor is 0 and getNextEvents and getEventAt serve what they
\* serve right after initialize with the original input; the streaming
\* engine has a new stepper, made from the original input.
C16_ResetServesRunAgain ==
  [][(ret'.op = "reset" /\ Initialized(eng)) =>
       /\ Engine_getCurrentPosition(eng') = 0
       /\ \A count \in EngineCounts :
            Engine_getNextEvents_ret(eng', count) =
              Engine_getNextEvents_ret(JustInitialized(eng), count)
       /\ \A index \in Positions :
            Engine_getEventAt(eng', index) =
              Engine_getEventAt(JustInitialized(eng), index)
       /\ eng' = JustInitialized(eng)
       /\ IsLive(eng) => eng'.originalArray = provider.input]_vars

\* C16 witness: a streaming engine reset after its buffer had been trimmed
\* serves the first event of its run again.
C16_Witness ==
  /\ ret.op = "reset"
  /\ IsLive(eng)
  /\ ret.before.bufferStart > 0
  /\ LiveEngine_getEventAt(ret.before, 0) = Null
  /\ eng.position = 0
  /\ LiveEngine_getEventAt(eng, 0) = provider.events[1]

\* The provider of a streaming engine has produced the terminal event of
\* its run.
Generated(e) ==
  /\ e.stepper # Null
  /\ Len(provider.events) > 0
  /\ e.totalEventsGenerated = Len(provider.events)

\* C17: on the streaming engine isDone() is true from the moment the
\* provider has produced its last event, wherever the cursor stands, until
\* reset or initialize.
C17_DoneOnceGenerated ==
  (IsLive(eng) /\ Generated(eng)) => LiveEngine_isDone(eng)

\* C17 as the code has it: isDone() is true exactly when the terminal event
\* has been generated and the cursor stands at the end of the run (on the
\* materializing engine: when the cursor stands at the end of the run), so
\* it is false again after a seek back; what stays until reset or
\* initialize is that the terminal event has been generated.
C17_DoneWhenConsumed ==
  /\ [](/\ IsLive(eng) =>
             (LiveEngine_isDone(eng) <=>
                (Generated(eng) /\ eng.position = Len(provider.events)))
        /\ (~IsLive(eng) /\ Initialized(eng)) =>
             (PregenEngine_isDone(eng) <=> eng.position = Len(provider.events))
        /\ ret.op = "isDone" => ret.value = Engine_isDone(eng))
  /\ [][(IsLive(eng) /\ Generated(eng) /\ ret'.op \notin {"reset", "initialize"})
          => Generated(eng')]_vars

\* C17 witness: isDone() has answered false on a streaming engine whose
\* terminal event has been generated and whose cursor is inside the run.
C17_Witness ==
  /\ ret.op = "isDone"
  /\ ret.value = FALSE
  /\ IsLive(eng)
  /\ Generated(eng)
  /\ eng.position > 0
  /\ eng.position < Len(provider.events)

\* C18: when initialize of the materializing engine fails, the engine is
\* left uninitialized, also if it had been initialized before: getNextEvents
\* returns no events, getEventAt returns null and getTotalEvents returns 0.
C18_FailedInitializeLeavesUninitialized ==
  (ret.op = "initialize" /\ ret.value = Rejected /\ ~IsLive(eng)) =>
    /\ \A count \in EngineCounts : PregenEngine_getNextEvents_ret(eng, count) = <<>>
    /\ \A index \in Positions : PregenEngine_getEventAt(eng, index) = Null
    /\ PregenEngine_getTotalEvents(eng) = 0

\* The events the provider produced during the step: initialize and reset
\* begin the run anew, getNextEvents continues it.
Produced ==
  IF ret'.op \in {"initialize", "reset"} THEN eng'.totalEventsGenerated
  ELSE eng'.totalEventsGenerated - eng.totalEventsGenerated

\* The batch requests (stepper.step calls) that produced them: every batch
\* but the last is full.
BatchRequests == (Produced + BATCH_SIZE - 1) \div BATCH_SIZE

\* C28: one initialize, getNextEvents or reset call of the streaming engine
\* requests batches only while fewer than batchSize x bufferBatches events
\* are buffered ahead of the position: the events ahead stay below that
\* target plus one batch, and one call makes at most bufferBatches requests,
\* whatever the length of the run.
C28_FillAheadIsBounded ==
  [][(IsLive(eng') /\ Initialized(eng') /\ Produced > 0) =>
       /\ Len(eng'.eventBuffer) - (eng'.position - eng'.bufferStart)
            < Window + BATCH_SIZE
       /\ BatchRequests <= BUFFER_BATCHES]_vars

\* C29: getNextEvents(count) of the streaming engine, called with
\* count >= 1 while the cursor is before the end of the run, returns at
\* least one event, and returns fewer than min(count, 2 x batchSize) events
\* only when the provider is done and the cursor has reached the end of the
\* buffer.
C29_NextEventsDoNotStall ==
  [][(/\ IsLive(eng)
      /\ Initialized(eng)
      /\ ret'.op = "getNextEvents"
      /\ ret'.arg >= 1
      /\ eng.position < Len(provider.events)) =>
       /\ Len(ret'.value) >= 1
       /\ Len(ret'.value) < Min(ret'.arg, BATCH_SIZE * 2) =>
            /\ LiveStepper_is_done(eng'.stepper)
            /\ eng'.position = eng'.bufferStart + Len(eng'.eventBuffer)]_vars

\* C29 witness: on the longest run a getNextEvents call asking for more
\* than two batches returned fewer events than it asked for, at least one,
\* and the cursor stands at the end of the run.
C29_Witness ==
  /\ IsLive(eng)
  /\ ret.op = "getNextEvents"
  /\ ret.arg > BATCH_SIZE * 2
  /\ Len(ret.value) >= 1
  /\ Len(ret.value) < ret.arg
  /\ Len(provider.events) = HugeLen
  /\ eng.position = HugeLen

\* The streaming engine keeps at most the retention window behind its
\* position.
TrailWithinWindow(e) == e.position - e.bufferStart <= Window

\* A getNextEvents step that removed events from the buffer removed the
\* oldest: bufferStart advanced by the number of events removed, and
\* getEventAt still gives every event from bufferStart up to the position.
TrimDropsOldest ==
  (/\ IsLive(eng)
   /\ ret'.op = "getNextEvents"
   /\ Len(eng'.eventBuffer) < Len(eng.eventBuffer) + Produced) =>
    /\ eng'.bufferStart - eng.bufferStart
         = Len(eng.eventBuffer) + Produced - Len(eng'.eventBuffer)
    /\ \A index \in eng'.bufferStart .. eng'.position - 1 :
         LiveEngine_getEventAt(eng', index) = provider.events[index + 1]

\* C30: on the streaming engine position - bufferStart <= batchSize x
\* bufferBatches holds after every operation, and a trim drops only the
\* oldest events.
C30_TrailBoundedAlways ==
  /\ [](IsLive(eng) => TrailWithinWindow(eng))
  /\ [][TrimDropsOldest]_vars

\* C30 as the code has it: position - bufferStart <= batchSize x
\* bufferBatches holds after an initialize that resolved, after reset and
\* after getNextEvents (seek moves the position inside the buffer and trims
\* nothing, and a rejected initialize leaves the engine as it was), and a
\* trim drops only the oldest events.
C30_TrailBoundedAfterConsuming ==
  /\ [][(/\ IsLive(eng')
          /\ \/ ret'.op \in {"reset", "getNextEvents"}
             \/ ret'.op = "initialize" /\ ret'.value # Rejected)
          => TrailWithinWindow(eng')]_vars
  /\ [][TrimDropsOldest]_vars

\* C30 witness: a getNextEvents call has trimmed the buffer of the
\* streaming engine: the position is a full window past bufferStart, the
\* event at bufferStart is the event of the run at that index and the one
\* before it is gone.
C30_Witness ==
  /\ IsLive(eng)
  /\ ret.op = "getNextEvents"
  /\ eng.bufferStart > 0
  /\ eng.position - eng.bufferStart = Window
  /\ LiveEngine_getEventAt(eng, eng.bufferStart) = provider.events[eng.bufferStart + 1]
  /\ LiveEngine_getEventAt(eng, eng.bufferStart - 1) = Null

\* C40: on the streaming engine, after every operation, bufferStart plus
\* the length of the buffer is totalEventsGenerated, the k-th buffered
\* event is the event of the run with index bufferStart + k, and so
\* getEventAt(i), when it is not null, is the i-th event of the run.
C40_BufferIsRunWindow ==
  IsLive(eng) =>
    /\ eng.bufferStart + Len(eng.eventBuffer) = eng.totalEventsGenerated
    /\ eng.totalEventsGenerated <= Len(provider.events)
    /\ \A k \in 1 .. Len(eng.eventBuffer) :
         eng.eventBuffer[k] = provider.events[eng.bufferStart + k]
    /\ \A i \in Positions :
         \A event \in {LiveEngine_getEventAt(eng, i)} :
           event # Null =>
             /\ i >= 0
             /\ i < Len(provider.events)
             /\ event = provider.events[i + 1]

\* C40 witness: a streaming engine whose buffer has been trimmed, serving
\* an event from inside the buffer and none from before it.
C40_Witness ==
  /\ IsLive(eng)
  /\ eng.bufferStart > 0
  /\ Len(eng.eventBuffer) > 1
  /\ LiveEngine_getEventAt(eng, eng.bufferStart - 1) = Null
  /\ LiveEngine_getEventAt(eng, eng.bufferStart + 1)
       = provider.events[eng.bufferStart + 2]

(***************************************************************************)
(* SpecPair: two controllers on the same run, ctl bound to the             *)
(* materializing engine and twin to the streaming engine, receiving the    *)
(* same operations and the same animation frames.                          *)
(***************************************************************************)
InitPair ==
  /\ provider \in Runs
  /\ ctl = AnimationController_new
  /\ twin = AnimationController_new
  /\ eng = Null
  /\ ret = Null
  /\ lab = Off

PairInitialize ==
  /\ ctl' = AnimationController_initialize(ctl, PregenEngine_new, "sort", provider.input)
  /\ twin' = AnimationController_initialize(twin, LiveEngine_new, "sort", provider.input)
  /\ UNCHANGED <<provider, eng, ret, lab>>

PairPlay ==
  /\ ctl' = AnimationController_play(ctl)
  /\ twin' = AnimationController_play(twin)
  /\ UNCHANGED <<provider, eng, ret, lab>>

PairPlayBackward ==
  /\ ctl' = AnimationController_playBackward(ctl)
  /\ twin' = AnimationController_playBackward(twin)
  /\ UNCHANGED <<provider, eng, ret, lab>>

PairPause ==
  /\ ctl' = AnimationController_pause(ctl)
  /\ twin' = AnimationController_pause(twin)
  /\ UNCHANGED <<provider, eng, ret, lab>>

PairReset ==
  /\ ctl' = AnimationController_reset(ctl)
  /\ twin' = AnimationController_reset(twin)
  /\ UNCHANGED <<provider, eng, ret, lab>>

PairStepForward ==
  /\ ctl' = AnimationController_stepForward(ctl)
  /\ twin' = AnimationController_stepForward(twin)
  /\ UNCHANGED <<provider, eng, ret, lab>>

\* stepBackward while the event to undo is still in the buffer of the
\* streaming engine.
PairStepBackward ==
  /\ Bound(twin)
  /\ twin.currentStep - 1 >= twin.engine.bufferStart
  /\ ctl' = AnimationController_stepBackward(ctl)
  /\ twin' = AnimationController_stepBackward(twin)
  /\ UNCHANGED <<provider, eng, ret, lab>>

Frame(c, deltaTime) ==
  IF c.pendingFrame
  THEN AnimationController_animate([c EXCEPT !.pendingFrame = FALSE], deltaTime)
  ELSE c

PairTick(deltaTime) ==
  /\ ctl.pendingFrame \/ twin.pendingFrame
  /\ ctl.accumulatedTime < MaxAccumulated
  /\ twin.accumulatedTime < MaxAccumulated
  /\ ctl' = Frame(ctl, deltaTime)
  /\ twin' = Frame(twin, deltaTime)
  /\ UNCHANGED <<provider, eng, ret, lab>>

NextPair ==
  \/ PairInitialize
  \/ PairPlay
  \/ PairPlayBackward
  \/ PairPause
  \/ PairReset
  \/ PairStepForward
  \/ PairStepBackward
  \/ \E deltaTime \in Deltas : PairTick(deltaTime)

SpecPair == InitPair /\ [][NextPair]_vars

\* What the controller last published: playbackState, position and array
\* to its listeners (notifyListeners), highlights and active range to the
\* renderer (render).
Published(c) ==
  <<IF c.notified = Null THEN Null
    ELSE <<c.notified.playbackState, c.notified.currentStep, c.notified.array>>,
    IF c.rendered = Null THEN Null
    ELSE <<c.rendered.highlights, c.rendered.activeRange>>>>

\* C9: under the same run and the same operations the controller on the
\* materializing engine and the controller on the streaming engine publish
\* the same playbackState, position, array, highlights and active range.
C9_EnginesInterchangeable == Published(ctl) = Published(twin)

(***************************************************************************)
(* SpecAsync: the controller with initialize as the asynchronous call it   *)
(* is.  BeginInitialize runs it up to the await on engine.initialize; the  *)
(* promise then resolves or rejects, and any operation of the controller   *)
(* and any animation frame may come in between.  One initialize call is in *)
(* flight at a time.  lab.prior is what the stopped controller held when   *)
(* the call in flight began.                                               *)
(***************************************************************************)
Held(c) ==
  [engine |-> c.engine, initialArray |-> c.initialArray, array |-> c.array,
   totalSteps |-> c.totalSteps]

\* The runs of SpecAsync: no event, the terminal event alone, and a run
\* longer than the window of the streaming engine.
AsyncRuns == {EmptyRun, PatternRun(1), PatternRun(LongLen)}

InitAsync ==
  /\ provider \in AsyncRuns
  /\ ctl = AnimationController_new
  /\ twin = Null
  /\ eng = Null
  /\ ret = Null
  /\ lab = [phase |-> "settled", prior |-> Null]

BeginInitialize(kind) ==
  /\ lab.phase # "awaiting"
  /\ ctl' = AnimationController_initializeBegin(ctl, NewEngine(kind), provider.input)
  /\ lab' = [phase |-> "awaiting", prior |-> Held(AnimationController_stop(ctl))]
  /\ UNCHANGED <<provider, twin, eng, ret>>

ResolveInitialize ==
  /\ lab.phase = "awaiting"
  /\ ctl' = AnimationController_initializeEnd(
              ctl, Engine_initialize(ctl.engine, "sort", provider.input))
  /\ lab' = [phase |-> "settled", prior |-> Null]
  /\ UNCHANGED <<provider, twin, eng, ret>>

\* The promise rejects: initialize throws out of its await and the rest of
\* it does not run.
RejectInitialize ==
  /\ lab.phase = "awaiting"
  /\ ctl' = [ctl EXCEPT !.engine =
               Engine_initializeFails(ctl.engine, "sort", provider.input)]
  /\ lab' = [phase |-> "failed", prior |-> Null]
  /\ UNCHANGED <<provider, twin, eng, ret>>

NextAsync ==
  \/ \E kind \in EngineKinds : BeginInitialize(kind)
  \/ ResolveInitialize
  \/ RejectInitialize
  \/ Play
  \/ PlayBackward
  \/ Pause
  \/ Stop
  \/ Reset
  \/ StepForward
  \/ StepBackward
  \/ \E step \in SeekTargets : SeekTo(step)
  \/ \E speed \in SpeedInputs : SetSpeed(speed)
  \/ \E deltaTime \in Deltas : Tick(deltaTime)

SpecAsync == InitAsync /\ [][NextAsync]_vars

\* C13: every state published to the subscribers has
\* 0 <= currentStep <= totalSteps.
C13_PublishedPositionInRange ==
  ctl.notified # Null =>
    /\ 0 <= ctl.notified.currentStep
    /\ ctl.notified.currentStep <= ctl.notified.totalSteps

\* A streaming run published at its last step.
C13_Witness ==
  /\ ctl.notified # Null
  /\ ctl.engine # Null
  /\ IsLive(ctl.engine)
  /\ ctl.notified.totalSteps > 0
  /\ ctl.notified.currentStep = ctl.notified.totalSteps

\* C19: when the engine's initialize rejects inside controller.initialize on
\* a controller that holds a run, the controller is not left bound to the
\* engine that failed: its engine, original array, working array and
\* totalSteps are those of the stopped controller before the call.
C19_FailedInitializeKeepsRun ==
  [][(/\ lab.phase = "awaiting"
      /\ lab'.phase = "failed"
      /\ lab.prior.engine # Null
      /\ Initialized(lab.prior.engine)) => Held(ctl') = lab.prior]_vars

\* What an operation that does nothing leaves as it was.
Kept(c) ==
  [playbackState |-> c.playbackState, direction |-> c.direction,
   currentStep |-> c.currentStep, totalSteps |-> c.totalSteps,
   array |-> c.array, rangeStack |-> c.rangeStack,
   cursor |-> Engine_getCurrentPosition(c.engine)]

\* C21: stepping past an edge does nothing: stepBackward and playBackward
\* at position 0, stepForward at totalSteps on the materializing engine,
\* stepBackward when the engine has no event position - 1, and seekTo on an
\* engine without random seek leave playbackState, direction, position,
\* totalSteps, array, range stack and engine cursor as they were.
C21_PastTheEdgeIsNoOp ==
  Bound(ctl) =>
    /\ ctl.currentStep = 0 =>
         /\ Kept(AnimationController_stepBackward(ctl)) = Kept(ctl)
         /\ Kept(AnimationController_playBackward(ctl)) = Kept(ctl)
    /\ (ctl.engine.canSeek /\ ctl.currentStep = ctl.totalSteps) =>
         Kept(AnimationController_stepForward(ctl)) = Kept(ctl)
    /\ (ctl.currentStep > 0
        /\ Engine_getEventAt(ctl.engine, ctl.currentStep - 1) = Null) =>
         Kept(AnimationController_stepBackward(ctl)) = Kept(ctl)
    /\ ~ctl.engine.canSeek =>
         \A step \in SeekTargets :
           Kept(AnimationController_seekTo(ctl, step)) = Kept(ctl)

\* C21 witness: a controller on the streaming engine stands at a position
\* whose preceding event has been trimmed from the buffer, stepBackward
\* leaves it there, and so does seekTo(0).
C21_Witness ==
  /\ Bound(ctl) /\ IsLive(ctl.engine)
  /\ ctl.currentStep > 0
  /\ Engine_getEventAt(ctl.engine, ctl.currentStep - 1) = Null
  /\ AnimationController_stepBackward(ctl) = ctl
  /\ AnimationController_seekTo(ctl, 0) = ctl

\* A frame is due on a controller playing backward on the streaming engine,
\* and the frame of deltaTime has at least one event to process.
RewindsOnFrame(c, deltaTime) ==
  /\ Bound(c) /\ IsLive(c.engine)
  /\ c.pendingFrame
  /\ c.playbackState = "playing"
  /\ c.direction = "backward"
  /\ c.currentStep > 0
  /\ c.accumulatedTime + deltaTime >= MsPerEvent(c.speed)

\* C22: a frame of backward playback on the streaming engine that comes to
\* an event the buffer no longer holds undoes nothing past it: the position
\* stays above it with the array equal to the replay of [0..position), the
\* playbackState is 'paused' and no further frame is requested.
C22_RewindHaltsAtBuffer ==
  \A deltaTime \in Deltas :
    RewindsOnFrame(ctl, deltaTime) =>
      \A after \in {AnimationController_animate(
                      [ctl EXCEPT !.pendingFrame = FALSE], deltaTime)} :
        (/\ after.currentStep > 0
         /\ ctl.currentStep - after.currentStep <
              (ctl.accumulatedTime + deltaTime) \div MsPerEvent(ctl.speed)) =>
          /\ Engine_getEventAt(ctl.engine, after.currentStep - 1) = Null
          /\ after.currentStep = ctl.engine.bufferStart
          /\ after.array =
               Replay(provider.input, provider.events, after.currentStep)
          /\ after.playbackState = "paused"
          /\ ~after.pendingFrame
          /\ after.animationId = AnimationController_new.animationId
          /\ (ctl.currentStep = after.currentStep => after.array = ctl.array)

\* C22 witness: backward playback stands at the start of a trimmed buffer
\* with a frame due; the frame pauses it where it stands.
C22_Witness ==
  /\ RewindsOnFrame(ctl, 300)
  /\ ctl.engine.bufferStart > 0
  /\ Engine_getEventAt(ctl.engine, ctl.currentStep - 1) = Null
  /\ AnimationController_animate(
       [ctl EXCEPT !.pendingFrame = FALSE], 300).playbackState = "paused"
  /\ AnimationController_animate(
       [ctl EXCEPT !.pendingFrame = FALSE], 300).currentStep = ctl.currentStep

\* C23: whenever playbackState is 'done' the position equals totalSteps and
\* the engine has no further event to serve; a frame of forward playback on
\* the materializing engine that brings the position to totalSteps enters
\* 'done' itself; and whatever enters 'done' on the streaming engine leaves
\* totalSteps equal to the position.
C23_DoneIsAtTheEnd ==
  /\ []((Bound(ctl) /\ ctl.playbackState = "done") =>
          /\ ctl.currentStep = ctl.totalSteps
          /\ Engine_getNextEvents_ret(ctl.engine, 1) = <<>>
          /\ Engine_getEventAt(ctl.engine, ctl.currentStep) = Null)
  /\ [][(/\ Bound(ctl) /\ ctl.engine.canSeek
         /\ ctl.pendingFrame
         /\ ctl.playbackState = "playing" /\ ctl.direction = "forward"
         /\ \E deltaTime \in Deltas :
              ctl' = AnimationController_animate(
                       [ctl EXCEPT !.pendingFrame = FALSE], deltaTime)
         /\ ctl'.currentStep = ctl'.totalSteps) =>
          ctl'.playbackState = "done"]_vars
  /\ [][(/\ Bound(ctl') /\ ~ctl'.engine.canSeek
         /\ ctl.playbackState # "done"
         /\ ctl'.playbackState = "done") =>
          /\ ctl'.totalSteps = ctl'.currentStep
          /\ ctl'.currentStep = Engine_getCurrentPosition(ctl'.engine)
          /\ ctl'.currentStep = Len(provider.events)]_vars

\* C23 witness: forward playback on the streaming engine has ended: 'done'
\* at the last position of the long run, the buffer trimmed behind it.
C23_Witness ==
  /\ Bound(ctl) /\ IsLive(ctl.engine)
  /\ ctl.playbackState = "done"
  /\ ctl.direction = "forward"
  /\ ctl.currentStep = LongLen
  /\ ctl.totalSteps = LongLen
  /\ ctl.engine.bufferStart > 0

\* The transitions of the playback state machine as the specification
\* draws it.
Transitions ==
  {<<"idle", "playing">>, <<"playing", "paused">>, <<"paused", "playing">>,
   <<"playing", "done">>, <<"paused", "done">>, <<"done", "idle">>,
   <<"done", "playing">>, <<"done", "paused">>}

\* C25: every change of playbackState made by an operation of the
\* controller other than initialize (the steps that leave lab alone) is one
\* of Transitions.
C25_OnlyDrawnTransitions ==
  [][(lab' = lab /\ ctl'.playbackState # ctl.playbackState) =>
       <<ctl.playbackState, ctl'.playbackState>> \in Transitions]_vars

\* The playbackState an operation may leave, given the one it found: the
\* one it found, or one of to.
Leaves(after, before, to) == after.playbackState \in {before.playbackState} \cup to

\* C25 as the code has it, operation by operation: play sets 'playing',
\* pause 'paused' and stop 'idle' from any state; playBackward sets
\* 'playing' or does nothing; reset changes 'done' to 'idle' and nothing
\* else; stepForward changes the state only to 'done'; stepBackward only
\* 'done' to 'paused'; seekTo only to 'done', or 'done' to 'paused'; a frame
\* only 'playing' to 'done' or 'paused'; setSpeed never.
C25_TransitionsByOperation ==
  /\ AnimationController_play(ctl).playbackState = "playing"
  /\ AnimationController_pause(ctl).playbackState = "paused"
  /\ AnimationController_stop(ctl).playbackState = "idle"
  /\ Leaves(AnimationController_playBackward(ctl), ctl, {"playing"})
  /\ Leaves(AnimationController_reset(ctl), ctl,
            IF ctl.playbackState = "done" THEN {"idle"} ELSE {})
  /\ Leaves(AnimationController_stepForward(ctl), ctl, {"done"})
  /\ Leaves(AnimationController_stepBackward(ctl), ctl,
            IF ctl.playbackState = "done" THEN {"paused"} ELSE {})
  /\ \A step \in SeekTargets :
       Leaves(AnimationController_seekTo(ctl, step), ctl,
              IF ctl.playbackState = "done" THEN {"done", "paused"} ELSE {"done"})
  /\ \A speed \in SpeedInputs :
       Leaves(AnimationController_setSpeed(ctl, speed), ctl, {})
  /\ \A deltaTime \in Deltas :
       Leaves(AnimationController_animate(
                [ctl EXCEPT !.pendingFrame = FALSE], deltaTime), ctl,
              IF ctl.playbackState = "playing" THEN {"done", "paused"} ELSE {})

\* C25 witness: a controller playing in the middle of a run, which stop
\* would leave idle, and which pause would leave paused.
C25_Witness ==
  /\ Bound(ctl)
  /\ ctl.playbackState = "playing"
  /\ ctl.currentStep > 0
  /\ ctl.currentStep < ctl.totalSteps
  /\ AnimationController_stop(ctl).playbackState = "idle"
  /\ <<"playing", "idle">> \notin Transitions

\* What reset() leaves behind in controller c.
IsRewound(c) ==
  /\ c.array = c.initialArray
  /\ c.currentStep = 0
  /\ c.rangeStack = <<>>
  /\ c.activeRange = Null
  /\ c.highlights = <<>>
  /\ c.isSorted = FALSE
  /\ Bound(c) =>
       /\ Engine_getCurrentPosition(c.engine) = 0
       /\ c.totalSteps = Engine_getTotalEvents(c.engine)

\* C26: reset() from any reachable state leaves the working array equal to
\* the original input, position 0, no open range, no highlight, the sorted
\* flag cleared, the engine cursor at 0 and totalSteps equal to the total of
\* the engine; and the copy of the original input the controller keeps is
\* the input of the run from one initialize to the next.
C26_ResetRestoresInput ==
  /\ [](/\ IsRewound(AnimationController_reset(ctl))
        /\ Bound(ctl) => ctl.initialArray = provider.input)
  /\ [][lab' = lab => ctl'.initialArray = ctl.initialArray]_vars

\* C26 witness: a controller stands inside a run on the streaming engine
\* with a changed array and a trimmed buffer, and reset() gives the input,
\* position 0 and an engine that buffers from 0 again.
C26_Witness ==
  /\ Bound(ctl)
  /\ IsLive(ctl.engine)
  /\ ctl.engine.bufferStart > 0
  /\ ctl.currentStep > 0
  /\ ctl.array # ctl.initialArray
  /\ IsRewound(AnimationController_reset(ctl))
  /\ AnimationController_reset(ctl).array = provider.input
  /\ AnimationController_reset(ctl).engine.bufferStart = 0

(***************************************************************************)
(* SpecListeners: the controller of Spec with listeners subscribing and    *)
(* unsubscribing between its operations, and with initialize calls whose   *)
(* engine rejects.  The caller of a rejected initialize may pass any       *)
(* array; the engine never reads it.                                       *)
(***************************************************************************)
Listeners == {"a", "b"}

OtherInput == <<1, 2>>

ListenerRuns == {PatternRun(1), PatternRun(LongLen)}

InitListeners ==
  /\ provider \in ListenerRuns
  /\ ctl = AnimationController_new
  /\ twin = Null
  /\ eng = Null
  /\ ret = Null
  /\ lab = Off

Subscribe(listener) ==
  /\ ctl' = AnimationController_subscribe(ctl, listener)
  /\ UNCHANGED <<provider, twin, eng, ret, lab>>

Unsubscribe(listener) ==
  /\ listener \in ctl.listeners
  /\ ctl' = AnimationController_unsubscribe(ctl, listener)
  /\ UNCHANGED <<provider, twin, eng, ret, lab>>

InitializeFails(kind, array) ==
  /\ ctl' = Then(AnimationController_initializeBegin(ctl, NewEngine(kind), array),
            LAMBDA c :
              [c EXCEPT !.engine = Engine_initializeFails(c.engine, "sort", array)])
  /\ UNCHANGED <<provider, twin, eng, ret, lab>>

NextListeners ==
  \/ \E listener \in Listeners : Subscribe(listener)
  \/ \E listener \in Listeners : Unsubscribe(listener)
  \/ \E kind \in EngineKinds : Initialize(kind)
  \/ \E kind \in EngineKinds, array \in {Input, OtherInput} :
       InitializeFails(kind, array)
  \/ Play
  \/ PlayBackward
  \/ Pause
  \/ Stop
  \/ Reset
  \/ StepForward
  \/ StepBackward
  \/ \E step \in SeekTargets : SeekTo(step)
  \/ \E speed \in SpeedInputs : SetSpeed(speed)
  \/ \E deltaTime \in Deltas : Tick(deltaTime)

SpecListeners == InitListeners /\ [][NextListeners]_vars

\* The subscribed listeners of c have all been called with the state c is
\* in, in one notification.
Told(c) ==
  /\ c.notified = AnimationController_getState(c)
  /\ c.called = c.listeners

\* C27: after every operation of the controller that changes
\* playbackState, direction, position, totalSteps, speed or the working
\* array, every subscribed listener has been called with the state after
\* the operation, all in one notification with one snapshot; and a
\* notification calls no listener whose unsubscribe function has run.
C27_ListenersToldOfEveryChange ==
  [][/\ AnimationController_getState(ctl') # AnimationController_getState(ctl)
        => Told(ctl')
     /\ ctl'.called # ctl.called => ctl'.called \subseteq ctl'.listeners]_vars

(***************************************************************************)
(* SpecClock: playback against the clock.  lab.elapsed is the time the     *)
(* frames have covered since the last play() or playBackward() (the sum of *)
(* their deltas) and lab.requested the events those frames have asked the  *)
(* engine for.  The speed changes only while nothing plays.                *)
(***************************************************************************)
MaxElapsed == 1200

ClockRuns == {EmptyRun, PatternRun(MaxLen), PatternRun(LongLen)}

InitClock ==
  /\ provider \in ClockRuns
  /\ ctl = AnimationController_new
  /\ twin = Null
  /\ eng = Null
  /\ ret = Null
  /\ lab = [elapsed |-> 0, requested |-> 0]

ClockBind(kind) ==
  /\ ~Bound(ctl)
  /\ ctl' = AnimationController_initialize(ctl, NewEngine(kind), "sort", provider.input)
  /\ UNCHANGED <<provider, twin, eng, ret, lab>>

ClockSetSpeed(speed) ==
  /\ ctl.playbackState # "playing"
  /\ ctl' = AnimationController_setSpeed(ctl, speed)
  /\ UNCHANGED <<provider, twin, eng, ret, lab>>

ClockPlay ==
  /\ ctl' = AnimationController_play(ctl)
  /\ lab' = [elapsed |-> 0, requested |-> 0]
  /\ UNCHANGED <<provider, twin, eng, ret>>

ClockPlayBackward ==
  /\ ctl.currentStep > 0
  /\ ctl' = AnimationController_playBackward(ctl)
  /\ lab' = [elapsed |-> 0, requested |-> 0]
  /\ UNCHANGED <<provider, twin, eng, ret>>

ClockPause ==
  /\ ctl.playbackState = "playing"
  /\ ctl' = AnimationController_pause(ctl)
  /\ UNCHANGED <<provider, twin, eng, ret, lab>>

ClockTick(deltaTime) ==
  /\ ctl.pendingFrame
  /\ lab.elapsed < MaxElapsed
  /\ ctl' = AnimationController_animate([ctl EXCEPT !.pendingFrame = FALSE], deltaTime)
  /\ lab' = [elapsed |-> lab.elapsed + deltaTime,
             requested |-> lab.requested
                             + AnimationController_animate_requested(ctl, deltaTime)]
  /\ UNCHANGED <<provider, twin, eng, ret>>

NextClock ==
  \/ \E kind \in EngineKinds : ClockBind(kind)
  \/ \E speed \in SpeedInputs : ClockSetSpeed(speed)
  \/ ClockPlay
  \/ ClockPlayBackward
  \/ ClockPause
  \/ \E deltaTime \in Deltas : ClockTick(deltaTime)

SpecClock == InitClock /\ [][NextClock]_vars

\* The accumulator after the frames since play(): less than one event's
\* time is carried over, and the events asked for are the whole events'
\* times in the time elapsed.
InStep(c) ==
  /\ 0 <= c.accumulatedTime
  /\ c.accumulatedTime < MsPerEvent(c.speed)
  /\ lab.requested = lab.elapsed \div MsPerEvent(c.speed)

\* C31: with a constant speed and non-negative frame deltas, after every
\* tick since play() 0 <= accumulatedTime < msPerEvent, and the events
\* requested since play() number floor(elapsed time / msPerEvent), however
\* the time is split into frames.
C31_AccumulatorInStep ==
  [][(\E deltaTime \in Deltas : ClockTick(deltaTime)) => InStep(ctl')]_vars

\* C31 as the code has it: the same, for the frames of a controller that
\* has an engine; without an engine a frame asks for nothing and carries
\* all its time over.
C31_AccumulatorInStepWithEngine ==
  [][((\E deltaTime \in Deltas : ClockTick(deltaTime)) /\ Bound(ctl))
       => InStep(ctl')]_vars

\* C31 witness: frames of both lengths have passed since play(), three and
\* a half events' time in all; three events were asked for and half an
\* event's time is carried over.
C31_Witness ==
  /\ Bound(ctl)
  /\ ctl.playbackState = "playing"
  /\ ctl.speed = SPEED_DEFAULT
  /\ lab.elapsed = 350
  /\ lab.requested = 3
  /\ ctl.accumulatedTime = 50

\* Controller c after the next n events of the run, those from its position
\* on, have been applied to it one by one.
RECURSIVE DoneInOrder(_, _)
DoneInOrder(c, n) ==
  IF n = 0 THEN c
  ELSE DoneInOrder(
         [AnimationController_applyEventToArray(c, provider.events[c.currentStep + 1])
            EXCEPT !.currentStep = c.currentStep + 1], n - 1)

\* Controller c after the n events of the run before its position have been
\* inverted one by one, the nearest first.
RECURSIVE UndoneInOrder(_, _)
UndoneInOrder(c, n) ==
  IF n = 0 THEN c
  ELSE UndoneInOrder(
         AnimationController_applyEventToArray(
           [c EXCEPT !.currentStep = c.currentStep - 1],
           inverseEvent(provider.events[c.currentStep])), n - 1)

\* What applying events leaves in a controller.
Applied(c) == <<c.currentStep, c.array, c.rangeStack>>

\* after is c moved by events of the run applied in sequence: forward by
\* at most most events from its position on, or backward by the inverses of
\* at most -most events before it.
MovedInOrder(c, after, most) ==
  \E n \in 0 .. (IF most >= 0 THEN most ELSE -most) :
    /\ IF most >= 0 THEN c.currentStep + n <= Len(provider.events)
       ELSE c.currentStep - n >= 0
    /\ Applied(after) = Applied(IF most >= 0 THEN DoneInOrder(c, n)
                                ELSE UndoneInOrder(c, n))

\* C32: events are applied in sequence in the direction of travel: what
\* stepForward or a forward frame fetches from the engine is the events of
\* the run from the position on, and it leaves the controller as applying
\* them one by one does; stepBackward and a backward frame leave it as
\* inverting the events before the position one by one does.
C32_AppliedInSequence ==
  (Bound(ctl) /\ Initialized(ctl.engine)) =>
    /\ MovedInOrder(ctl, AnimationController_stepForward(ctl), 1)
    /\ MovedInOrder(ctl, AnimationController_stepBackward(ctl), -1)
    /\ IF ctl.engine.canSeek
       THEN Engine_getEventAt(ctl.engine, ctl.currentStep)
              \in {Null} \cup {provider.events[i] : i \in {ctl.currentStep + 1}
                                                       \cap DOMAIN provider.events}
       ELSE Engine_getNextEvents_ret(ctl.engine, 1)
              = Slice(provider.events, ctl.currentStep, ctl.currentStep + 1)
    /\ (ctl.pendingFrame /\ ctl.playbackState = "playing") =>
         \A deltaTime \in Deltas :
           \A n \in {AnimationController_animate_requested(ctl, deltaTime)} :
             /\ MovedInOrder(ctl,
                  AnimationController_animate([ctl EXCEPT !.pendingFrame = FALSE], deltaTime),
                  IF ctl.direction = "forward" THEN n ELSE -n)
             /\ ctl.direction = "forward" =>
                  Engine_getNextEvents_ret(ctl.engine, n)
                    = Slice(provider.events, ctl.currentStep, ctl.currentStep + n)

\* C32 witness: a forward frame on the streaming engine is about to apply
\* three events from the middle of the long run, and they change the array.
C32_Witness ==
  /\ Bound(ctl)
  /\ IsLive(ctl.engine)
  /\ ctl.pendingFrame
  /\ ctl.playbackState = "playing"
  /\ ctl.direction = "forward"
  /\ ctl.currentStep > 0
  /\ Len(provider.events) = LongLen
  /\ \E after \in {AnimationController_animate([ctl EXCEPT !.pendingFrame = FALSE], 300)} :
       /\ after.currentStep = ctl.currentStep + 3
       /\ after.array # ctl.array

\* The frame loop of c is stopped: no frame callback is queued, none is
\* held by id, and c is not playing.
Halted(c) ==
  /\ ~c.pendingFrame
  /\ c.animationId = 0
  /\ c.playbackState # "playing"

\* A frame on c moves the position by as many events as it moves the
\* cursor of the engine.
WholeBatches(c) ==
  \A deltaTime \in Deltas :
    \A after \in {AnimationController_animate([c EXCEPT !.pendingFrame = FALSE], deltaTime)} :
      after.currentStep - c.currentStep
        = Engine_getCurrentPosition(after.engine) - Engine_getCurrentPosition(c.engine)

\* C33: pause() or reset() called while playing stops the frame loop, so
\* that no frame applies an event until play() or playBackward() starts it
\* again; and a frame never leaves a fetched batch partially applied.
C33_PauseAndResetHalt ==
  /\ ctl.playbackState = "playing" =>
       /\ Halted(AnimationController_pause(ctl))
       /\ Halted(AnimationController_reset(ctl))
  /\ (Bound(ctl) /\ ctl.pendingFrame) => WholeBatches(ctl)

\* The step was a stepForward or a forward frame on an initialized run whose
\* last applied event opens or closes a range.
EndsOnRangeEvent ==
  /\ lab' = lab
  /\ Bound(ctl)
  /\ Initialized(ctl.engine)
  /\ \/ ctl' = AnimationController_stepForward(ctl)
     \/ /\ ctl.pendingFrame
        /\ ctl.direction = "forward"
        /\ \E deltaTime \in Deltas :
             ctl' = AnimationController_animate([ctl EXCEPT !.pendingFrame = FALSE], deltaTime)
  /\ ctl'.currentStep > ctl.currentStep
  /\ provider.events[ctl'.currentStep].type \in {"EnterRange", "ExitRange"}

\* The range stack after the event at the position has pushed or popped.
RangePushedOrPopped(c) ==
  c.rangeStack = RefNest(OpenRanges(provider.events, c.currentStep - 1),
                         provider.events[c.currentStep])

\* C34: a step or batch whose last event is an EnterRange or ExitRange
\* pushes or pops the stack of active ranges and leaves the highlights and
\* the sorted flag as they were before it.
C34_RangeEventKeepsHighlights ==
  [][EndsOnRangeEvent =>
       /\ RangePushedOrPopped(ctl')
       /\ ctl'.highlights = ctl.highlights
       /\ ctl'.isSorted = ctl.isSorted]_vars

\* C34 as the code has it: such a step or batch pushes or pops the stack of
\* active ranges and clears the highlights and the sorted flag.
C34_RangeEventClearsHighlights ==
  [][EndsOnRangeEvent =>
       /\ RangePushedOrPopped(ctl')
       /\ ctl'.highlights = <<>>
       /\ ctl'.isSorted = FALSE]_vars

\* C34 witness: the controller shows the highlight of an Overwrite and
\* stands before an ExitRange, which stepForward applies: the range is
\* closed and the highlight gone.
C34_Witness ==
  /\ Bound(ctl)
  /\ Initialized(ctl.engine)
  /\ ctl.highlights # <<>>
  /\ ctl.currentStep < Len(provider.events)
  /\ provider.events[ctl.currentStep + 1].type = "ExitRange"
  /\ \E after \in {AnimationController_stepForward(ctl)} :
       /\ after.currentStep = ctl.currentStep + 1
       /\ Len(after.rangeStack) = Len(ctl.rangeStack) - 1
       /\ after.highlights = <<>>

\* C35: between the operations on an initialized run the position of the
\* controller is the cursor of its engine, on either engine.
C35_PositionIsCursor ==
  (Bound(ctl) /\ Initialized(ctl.engine)) =>
    ctl.currentStep = Engine_getCurrentPosition(ctl.engine)

\* C35 witness: backward playback on the streaming engine has brought the
\* controller back inside a trimmed buffer, and the cursor has followed.
C35_Witness ==
  /\ Bound(ctl)
  /\ IsLive(ctl.engine)
  /\ ctl.direction = "backward"
  /\ ctl.engine.bufferStart > 0
  /\ ctl.currentStep > ctl.engine.bufferStart
  /\ ctl.currentStep < Len(provider.events)
  /\ Engine_getCurrentPosition(ctl.engine) = ctl.currentStep

\* C36: whenever playbackState is 'playing' a frame callback is queued, and
\* whenever it is not, no animation id is held that would keep a later
\* play() from starting the loop; also when play() or playBackward() is
\* called while initialize awaits its engine.
C36_LoopFollowsPlaying ==
  /\ ctl.playbackState = "playing" => ctl.pendingFrame
  /\ ctl.playbackState # "playing" =>
       /\ ctl.animationId = 0
       /\ AnimationController_play(ctl).pendingFrame

\* The event before position p of the run is its Done.
AfterDone(p) ==
  /\ p > 0
  /\ p <= Len(provider.events)
  /\ provider.events[p].type = "Done"

\* C38: the sorted flag, in the controller and in the snapshot last handed
\* to the renderer, is set only when the position is past the Done event of
\* the run; it is off after reset, after a stepBackward or backward frame
\* that has moved the position, and after seekTo to any position whose
\* preceding event is not Done.
C38_SortedOnlyAfterDone ==
  Bound(ctl) =>
    /\ ctl.isSorted => AfterDone(ctl.currentStep)
    /\ (ctl.rendered # Null /\ ctl.rendered.isSorted) => AfterDone(ctl.currentStep)
    /\ ~AnimationController_reset(ctl).isSorted
    /\ \A after \in {AnimationController_stepBackward(ctl)} :
         after.currentStep < ctl.currentStep => ~after.isSorted
    /\ \A step \in SeekTargets :
         \A after \in {AnimationController_seekTo(ctl, step)} :
           after.isSorted => AfterDone(after.currentStep)

\* C38 witness: the controller stands past the Done event of a run with the
\* sorted flag set and shown, and a stepBackward from there clears it.
C38_Witness ==
  /\ Bound(ctl)
  /\ ctl.isSorted
  /\ ctl.rendered.isSorted
  /\ ctl.currentStep = Len(provider.events)
  /\ Len(provider.events) > 1
  /\ \E after \in {AnimationController_stepBackward(ctl)} :
       /\ after.currentStep = ctl.currentStep - 1
       /\ ~after.isSorted
       /\ ~after.rendered.isSorted

(***************************************************************************)
(* SpecOverlap: two initialize calls on one controller, the second made    *)
(* while the first awaits its engine.  provider is the run of the call     *)
(* made last.  lab.first is the engine of the first call as its initialize *)
(* leaves it, with the run of that call; the two promises settle in either *)
(* order.                                                                  *)
(***************************************************************************)
OverlapRuns ==
  {EmptyRun, PatternRun(1), PatternRun(MaxLen + 1), PatternRun(LongLen),
   [input |-> OtherInput, events |-> <<Done>>]}

InitOverlap ==
  /\ provider \in OverlapRuns
  /\ ctl = AnimationController_new
  /\ twin = Null
  /\ eng = Null
  /\ ret = Null
  /\ lab = [phase |-> "none", first |-> Null]

FirstCall(kind) ==
  /\ lab.phase = "none"
  /\ ctl' = AnimationController_initializeBegin(ctl, NewEngine(kind), provider.input)
  /\ lab' = [phase |-> "one",
             first |-> Engine_initialize(NewEngine(kind), "sort", provider.input)]
  /\ UNCHANGED <<provider, twin, eng, ret>>

SecondCall(kind, run) ==
  /\ lab.phase = "one"
  /\ provider' = run
  /\ ctl' = AnimationController_initializeBegin(ctl, NewEngine(kind), run.input)
  /\ lab' = [lab EXCEPT !.phase = "two"]
  /\ UNCHANGED <<twin, eng, ret>>

\* The first call continues after its await: this.engine is the engine of
\* the second call and stays so; the continuation reads its own engine.
FirstResolves ==
  /\ lab.phase \in {"two", "second"}
  /\ ctl' = [AnimationController_initializeEnd(ctl, lab.first)
               EXCEPT !.engine = ctl.engine]
  /\ lab' = [lab EXCEPT !.phase = IF lab.phase = "two" THEN "first" ELSE "both"]
  /\ UNCHANGED <<provider, twin, eng, ret>>

SecondResolves ==
  /\ lab.phase \in {"two", "first"}
  /\ ctl' = AnimationController_initializeEnd(
              ctl, Engine_initialize(ctl.engine, "sort", provider.input))
  /\ lab' = [lab EXCEPT !.phase = IF lab.phase = "two" THEN "second" ELSE "both"]
  /\ UNCHANGED <<provider, twin, eng, ret>>

NextOverlap ==
  \/ \E kind \in EngineKinds : FirstCall(kind)
  \/ \E kind \in EngineKinds, run \in OverlapRuns : SecondCall(kind, run)
  \/ FirstResolves
  \/ SecondResolves

SpecOverlap == InitOverlap /\ [][NextOverlap]_vars

\* C37: once two overlapping initialize calls have both completed, in
\* either order, totalSteps is the total of the engine the controller is
\* bound to, and the original and working arrays are the input of the call
\* that bound it.
C37_OverlapSettlesOnOneCall ==
  lab.phase = "both" =>
    /\ ctl.totalSteps = Engine_getTotalEvents(ctl.engine)
    /\ ctl.initialArray = provider.input
    /\ ctl.array = provider.input

(***************************************************************************)
(* SpecSteppers: the streaming engine and the steppers it makes.  The      *)
(* LiveStepper constructor throws for an algorithm it does not know.  A    *)
(* call on a freed stepper is an error of the wasm binding: free() either  *)
(* throws or does nothing, is_done() throws.  lab counts the steppers      *)
(* that have been made and not freed.                                      *)
(***************************************************************************)
KnownAlgorithms == {"sort"}

Algorithms == KnownAlgorithms \cup {"unknown"}

SteppersRuns == {EmptyRun, PatternRun(1), PatternRun(LongLen)}

HoldsFreed(e) == e.stepper # Null /\ e.stepper.freed

Unfreed(e) == IF e.stepper # Null /\ ~e.stepper.freed THEN 1 ELSE 0

InitSteppers ==
  /\ provider \in SteppersRuns
  /\ ctl = AnimationController_new
  /\ twin = Null
  /\ eng = LiveEngine_new
  /\ ret = Called("new", 0, Null, Null)
  /\ lab = [unfreed |-> 0]

StepperInitialize(algorithm) ==
  \E freeThrows \in (IF HoldsFreed(eng) THEN BOOLEAN ELSE {FALSE}) :
    /\ eng' = IF freeThrows THEN eng
              ELSE IF algorithm \in KnownAlgorithms
                   THEN LiveEngine_initialize(eng, algorithm, provider.input)
                   ELSE LiveEngine_initializeThrows(eng, algorithm, provider.input)
    /\ ret' = Called("initialize", 0,
                     IF freeThrows \/ algorithm \notin KnownAlgorithms
                     THEN Rejected ELSE Null, eng)
    /\ lab' = [unfreed |-> IF freeThrows THEN lab.unfreed
                           ELSE lab.unfreed - Unfreed(eng)
                                + (IF algorithm \in KnownAlgorithms THEN 1 ELSE 0)]
    /\ UNCHANGED <<provider, ctl, twin>>

StepperReset ==
  \E freeThrows \in (IF HoldsFreed(eng) THEN BOOLEAN ELSE {FALSE}) :
    /\ eng' = IF freeThrows THEN eng
              ELSE IF eng.algorithm \in KnownAlgorithms \cup {""}
                   THEN LiveEngine_reset(eng)
                   ELSE LiveEngine_resetThrows(eng)
    /\ ret' = Called("reset", 0,
                     IF freeThrows \/ eng.algorithm \notin KnownAlgorithms \cup {""}
                     THEN Rejected ELSE Null, eng)
    /\ lab' = [unfreed |-> IF freeThrows THEN lab.unfreed
                           ELSE lab.unfreed - Unfreed(eng)
                                + (IF eng.algorithm \in KnownAlgorithms THEN 1 ELSE 0)]
    /\ UNCHANGED <<provider, ctl, twin>>

StepperGetNextEvents(count) ==
  /\ IF HoldsFreed(eng) /\ LiveEngine_fillReadsStepper(eng)
     THEN /\ eng' = eng
          /\ ret' = Called("getNextEvents", count, Rejected, eng)
     ELSE /\ eng' = LiveEngine_getNextEvents(eng, count)
          /\ ret' = Called("getNextEvents", count,
                           LiveEngine_getNextEvents_ret(eng, count), eng)
  /\ UNCHANGED <<provider, ctl, twin, lab>>

StepperSeek(position) ==
  /\ eng' = LiveEngine_seek(eng, position)
  /\ ret' = Called("seek", position, Null, eng)
  /\ UNCHANGED <<provider, ctl, twin, lab>>

NextSteppers ==
  \/ \E algorithm \in Algorithms : StepperInitialize(algorithm)
  \/ StepperReset
  \/ \E count \in EngineCounts : StepperGetNextEvents(count)
  \/ \E position \in 0 .. LongLen : StepperSeek(position)

SpecSteppers == InitSteppers /\ [][NextSteppers]_vars

\* C39: no operation of the streaming engine calls free, is_done or step on
\* a stepper that has been freed (initialize and reset free the stepper
\* they find, getNextEvents asks it is_done when the buffer needs filling),
\* and at most one stepper made by the engine is unfreed at any time.
C39_SteppersUsedWhileAlive ==
  /\ [][/\ ret'.op \in {"initialize", "reset"} => ~HoldsFreed(eng)
        /\ (ret'.op = "getNextEvents" /\ LiveEngine_fillReadsStepper(eng))
             => ~HoldsFreed(eng)]_vars
  /\ [](lab.unfreed \in {0, 1})

(***************************************************************************)
(* SpecEvents: the event algebra.  A controller holding any array and any  *)
(* stack of open ranges applies any event the event model allows in that   *)
(* state (applyEventToArray), then its inverse; and inverseEvent is        *)
(* applied twice to any event.                                             *)
(***************************************************************************)
\* Open ranges nest at most this deep.
MaxDepth == 2

Arrays == {<<x, y>> : x \in Values, y \in Values}

Stacks ==
  {<<>>} \cup {<<r>> : r \in Ranges} \cup {<<r, q>> : r \in Ranges, q \in Ranges}

Indices == {0, 1}

\* Every event over the indices, values and ranges of the model.
AllEvents ==
  {Swap(i, j) : i \in Indices, j \in Indices}
    \cup {Compare(i, j) : i \in Indices, j \in Indices}
    \cup {Overwrite(idx, old, new) : idx \in Indices, old \in Values, new \in Values}
    \cup {EnterRange(r.lo, r.hi) : r \in Ranges}
    \cup {ExitRange(r.lo, r.hi) : r \in Ranges}
    \cup {Done}

\* The events the event model allows on array a with open ranges st: an
\* Overwrite records the value at idx, an ExitRange closes the innermost
\* open range.
Applicable(a, st) ==
  {e \in AllEvents :
     /\ e.type = "Overwrite" => e.old_val = a[e.idx + 1]
     /\ e.type = "ExitRange" =>
          Len(st) > 0 /\ st[Len(st)] = [lo |-> e.lo, hi |-> e.hi]
     /\ e.type = "EnterRange" => Len(st) < MaxDepth}

Bench(a, st) ==
  [AnimationController_new EXCEPT
     !.array = a, !.initialArray = a, !.rangeStack = st,
     !.activeRange = IF Len(st) > 0 THEN st[Len(st)] ELSE Null]

InitEvents ==
  /\ provider = EmptyRun
  /\ ctl = AnimationController_new
  /\ twin = Null
  /\ eng = Null
  /\ ret = Null
  /\ lab \in {[phase |-> "ready", c |-> Bench(a, st), before |-> Null,
               event |-> Null, once |-> Null, twice |-> Null] :
                a \in Arrays, st \in Stacks}

ApplyEvent(e) ==
  /\ lab.phase \in {"ready", "undone", "inverted"}
  /\ lab' = [phase |-> "applied", before |-> lab.c, event |-> e,
             c |-> AnimationController_applyEventToArray(lab.c, e),
             once |-> Null, twice |-> Null]
  /\ UNCHANGED <<provider, ctl, twin, eng, ret>>

UndoEvent ==
  /\ lab.phase = "applied"
  /\ lab' = [lab EXCEPT !.phase = "undone",
                        !.c = AnimationController_applyEventToArray(
                                lab.c, inverseEvent(lab.event))]
  /\ UNCHANGED <<provider, ctl, twin, eng, ret>>

InvertTwice(e) ==
  /\ lab.phase \in {"ready", "undone"}
  /\ lab' = [lab EXCEPT !.phase = "inverted", !.event = e,
                        !.once = inverseEvent(e),
                        !.twice = inverseEvent(inverseEvent(e))]
  /\ UNCHANGED <<provider, ctl, twin, eng, ret>>

NextEvents ==
  \/ \E e \in Applicable(lab.c.array, lab.c.rangeStack) : ApplyEvent(e)
  \/ UndoEvent
  \/ \E e \in AllEvents : InvertTwice(e)

SpecEvents == InitEvents /\ [][NextEvents]_vars

\* C2: applying an event and then its inverse through applyEventToArray
\* restores the array; for EnterRange and ExitRange it also restores the
\* stack of open ranges and the active range.
C2_RoundTrip ==
  lab.phase = "undone" =>
    /\ lab.c.array = lab.before.array
    /\ lab.event.type \in {"EnterRange", "ExitRange"} =>
         /\ lab.c.rangeStack = lab.before.rangeStack
         /\ lab.c.activeRange = lab.before.activeRange

\* C2 witness: an Overwrite that changed the array has been applied and
\* undone while a range was open.
C2_Witness ==
  /\ lab.phase = "undone"
  /\ lab.event.type = "Overwrite"
  /\ lab.event.old_val # lab.event.new_val
  /\ Len(lab.before.rangeStack) > 0

\* C3: inverseEvent applied twice gives the event back, field for field.
C3_Involution == lab.phase = "inverted" => lab.twice = lab.event

\* C3 witness: an ExitRange has been inverted twice, its inverse being
\* another event.
C3_Witness ==
  /\ lab.phase = "inverted"
  /\ lab.event.type = "ExitRange"
  /\ lab.once # lab.event
  /\ lab.once.type = "EnterRange"

====
